---------------------------- MODULE Spec2Model ----------------------------
(***************************************************************************)
(* A model of the ogg_xiph crate: the SyncState (bytes -> pages), the      *)
(* Stream (pages <-> packets) and the Page / Packet values, together with  *)
(* the parts of libogg's framing layer that the crate calls.               *)
(*                                                                         *)
(* Integers wider than 31 bits are kept as little-endian byte tuples, the  *)
(* form they have in a page header.                                        *)
(***************************************************************************)
EXTENDS Integers, Sequences, FiniteSets, TLC

VARIABLES
    aborted,        \* TRUE once an operation has panicked (the process is gone)
    vh_header,      \* validate_header: the byte slice under test
    vh_result,      \* validate_header: "none" before the call, then its result
    page_flags,     \* what the three flag accessors of a Page returned, once read
    sync_state,     \* SyncState.sync_state (ogg_sync_state)
    script,         \* the physical byte stream the caller reads from
    pos,            \* how many bytes of script the caller has submitted
    last,           \* the latest submit_bytes call: argument, result, pages
    calls,          \* number of submit_bytes calls made
    consumed,       \* history: bytes libogg has dropped from the front of its buffer
    delivered,      \* history: every page returned to the caller, with its offset
    twin,           \* a SyncState created at the latest reset, its latest result
    held,           \* the Pages and Packets the caller holds
    seen,           \* history: what the caller has read from, or written to, each
    run,            \* the submit_bytes call in progress, step by step
    streams,        \* the sender's Stream "enc" and the receiver's Stream "dec"
    wire,           \* the pages the sender has got out of "enc", cloned, in order
    fed,            \* how many pages of the wire have been passed on or lost
    sent,           \* history: the packets the sender submitted, as it set them
    got,            \* history: the packets the receiver took out of "dec"
    s_last,         \* the latest Stream operation and its result
    accepted,       \* history: has page_in accepted a page since new / reset?
    tampered,       \* history: was a page lost or altered, or a stream reset?
    arrived,        \* history: per serial, the sequence numbers of the pages fed
    outs,           \* history: per serial, what packet_out returned (but need-more-data)
    given           \* history: the byte counts ogg_stream_packetin was handed

vars == <<aborted, vh_header, vh_result, page_flags, sync_state, script, pos, last, calls,
          consumed, delivered, twin, held, seen, run, streams, wire, fed, sent, got, s_last, accepted,
          tampered, arrived, outs, given>>

(***************************************************************************)
(* Bytes and fixed-width integers                                          *)
(***************************************************************************)
Byte == 0..255

RECURSIVE XorBits(_, _, _)
XorBits(a, b, n) ==
    IF n = 0 THEN 0
    ELSE ((a + b) % 2) + 2 * XorBits(a \div 2, b \div 2, n - 1)

\* a ^ b on u8 operands
Xor8 == [a \in Byte |-> [b \in Byte |-> XorBits(a, b, 8)]]

\* a & mask != 0 for a single-bit mask
BitSet(a, mask) == (a \div mask) % 2 = 1

RECURSIVE LeDigits(_, _)
LeDigits(v, n) ==
    IF n = 0 THEN <<>> ELSE <<v % 256>> \o LeDigits(v \div 256, n - 1)

\* to_le_bytes of an n-byte two's complement integer
ToLe(v, n) ==
    IF v >= 0 THEN LeDigits(v, n)
    ELSE LET d == LeDigits(-v - 1, n) IN [i \in 1..n |-> 255 - d[i]]

RECURSIVE LeValue(_)
LeValue(bs) ==
    IF bs = <<>> THEN 0 ELSE bs[1] + 256 * LeValue(Tail(bs))

\* u32::from_le_bytes, for values that fit the model's integers
FromLeUnsigned(bs) == LeValue(bs)

\* i32::from_le_bytes / the (int) cast of libogg's ogg_page_serialno
FromLeSigned(bs) ==
    IF bs[Len(bs)] >= 128
    THEN -(LeValue([i \in 1..Len(bs) |-> 255 - bs[i]])) - 1
    ELSE LeValue(bs)

\* slice[lo..hi) with 0-based bounds, as Rust's header[lo..hi]
Slice(s, lo, hi) == SubSeq(s, lo + 1, hi)

\* the one element of a singleton set.  Only({e(x) : x \in {v}}) is e(v) with v
\* computed once, before e is.
Only(S) == CHOOSE v \in S : TRUE

\* the least element of a non-empty set of integers
Least(S) == CHOOSE x \in S : \A y \in S : x <= y

\* s[lo] + ... + s[hi]
RECURSIVE SumRange(_, _, _)
SumRange(s, lo, hi) ==
    IF hi < lo THEN 0
    ELSE IF lo = hi THEN s[lo]
    ELSE LET mid == (lo + hi) \div 2
         IN  SumRange(s, lo, mid) + SumRange(s, mid + 1, hi)

SumSeq(s) == SumRange(s, 1, Len(s))

(***************************************************************************)
(* Page header layout (page.rs) and libogg's checksum                      *)
(***************************************************************************)
HEADER_VERSION == 4
HEADER_TYPE == 5
HEADER_GRANULE_POSITION == 6
HEADER_PAGE_SERIAL_NUMBER == 14
HEADER_SEQUENCE_NUMBER == 18
HEADER_CHECKSUM == 22
HEADER_SEGMENTS == 26
HEADER_SIZE_MIN == 28

\* "OggS"
CapturePattern == <<79, 103, 103, 83>>

\* libogg's crc_lookup[256] (polynomial 0x04c11db7), each entry as its four
\* bytes <<b3, b2, b1, b0>>, b3 the most significant
crc_lookup ==
    [index \in Byte |->
      <<
       <<0, 0, 0, 0>>, <<4, 193, 29, 183>>, <<9, 130, 59, 110>>, <<13, 67, 38, 217>>,
       <<19, 4, 118, 220>>, <<23, 197, 107, 107>>, <<26, 134, 77, 178>>, <<30, 71, 80, 5>>,
       <<38, 8, 237, 184>>, <<34, 201, 240, 15>>, <<47, 138, 214, 214>>, <<43, 75, 203, 97>>,
       <<53, 12, 155, 100>>, <<49, 205, 134, 211>>, <<60, 142, 160, 10>>, <<56, 79, 189, 189>>,
       <<76, 17, 219, 112>>, <<72, 208, 198, 199>>, <<69, 147, 224, 30>>, <<65, 82, 253, 169>>,
       <<95, 21, 173, 172>>, <<91, 212, 176, 27>>, <<86, 151, 150, 194>>, <<82, 86, 139, 117>>,
       <<106, 25, 54, 200>>, <<110, 216, 43, 127>>, <<99, 155, 13, 166>>, <<103, 90, 16, 17>>,
       <<121, 29, 64, 20>>, <<125, 220, 93, 163>>, <<112, 159, 123, 122>>, <<116, 94, 102, 205>>,
       <<152, 35, 182, 224>>, <<156, 226, 171, 87>>, <<145, 161, 141, 142>>, <<149, 96, 144, 57>>,
       <<139, 39, 192, 60>>, <<143, 230, 221, 139>>, <<130, 165, 251, 82>>, <<134, 100, 230, 229>>,
       <<190, 43, 91, 88>>, <<186, 234, 70, 239>>, <<183, 169, 96, 54>>, <<179, 104, 125, 129>>,
       <<173, 47, 45, 132>>, <<169, 238, 48, 51>>, <<164, 173, 22, 234>>, <<160, 108, 11, 93>>,
       <<212, 50, 109, 144>>, <<208, 243, 112, 39>>, <<221, 176, 86, 254>>, <<217, 113, 75, 73>>,
       <<199, 54, 27, 76>>, <<195, 247, 6, 251>>, <<206, 180, 32, 34>>, <<202, 117, 61, 149>>,
       <<242, 58, 128, 40>>, <<246, 251, 157, 159>>, <<251, 184, 187, 70>>, <<255, 121, 166, 241>>,
       <<225, 62, 246, 244>>, <<229, 255, 235, 67>>, <<232, 188, 205, 154>>, <<236, 125, 208, 45>>,
       <<52, 134, 112, 119>>, <<48, 71, 109, 192>>, <<61, 4, 75, 25>>, <<57, 197, 86, 174>>,
       <<39, 130, 6, 171>>, <<35, 67, 27, 28>>, <<46, 0, 61, 197>>, <<42, 193, 32, 114>>,
       <<18, 142, 157, 207>>, <<22, 79, 128, 120>>, <<27, 12, 166, 161>>, <<31, 205, 187, 22>>,
       <<1, 138, 235, 19>>, <<5, 75, 246, 164>>, <<8, 8, 208, 125>>, <<12, 201, 205, 202>>,
       <<120, 151, 171, 7>>, <<124, 86, 182, 176>>, <<113, 21, 144, 105>>, <<117, 212, 141, 222>>,
       <<107, 147, 221, 219>>, <<111, 82, 192, 108>>, <<98, 17, 230, 181>>, <<102, 208, 251, 2>>,
       <<94, 159, 70, 191>>, <<90, 94, 91, 8>>, <<87, 29, 125, 209>>, <<83, 220, 96, 102>>,
       <<77, 155, 48, 99>>, <<73, 90, 45, 212>>, <<68, 25, 11, 13>>, <<64, 216, 22, 186>>,
       <<172, 165, 198, 151>>, <<168, 100, 219, 32>>, <<165, 39, 253, 249>>, <<161, 230, 224, 78>>,
       <<191, 161, 176, 75>>, <<187, 96, 173, 252>>, <<182, 35, 139, 37>>, <<178, 226, 150, 146>>,
       <<138, 173, 43, 47>>, <<142, 108, 54, 152>>, <<131, 47, 16, 65>>, <<135, 238, 13, 246>>,
       <<153, 169, 93, 243>>, <<157, 104, 64, 68>>, <<144, 43, 102, 157>>, <<148, 234, 123, 42>>,
       <<224, 180, 29, 231>>, <<228, 117, 0, 80>>, <<233, 54, 38, 137>>, <<237, 247, 59, 62>>,
       <<243, 176, 107, 59>>, <<247, 113, 118, 140>>, <<250, 50, 80, 85>>, <<254, 243, 77, 226>>,
       <<198, 188, 240, 95>>, <<194, 125, 237, 232>>, <<207, 62, 203, 49>>, <<203, 255, 214, 134>>,
       <<213, 184, 134, 131>>, <<209, 121, 155, 52>>, <<220, 58, 189, 237>>, <<216, 251, 160, 90>>,
       <<105, 12, 224, 238>>, <<109, 205, 253, 89>>, <<96, 142, 219, 128>>, <<100, 79, 198, 55>>,
       <<122, 8, 150, 50>>, <<126, 201, 139, 133>>, <<115, 138, 173, 92>>, <<119, 75, 176, 235>>,
       <<79, 4, 13, 86>>, <<75, 197, 16, 225>>, <<70, 134, 54, 56>>, <<66, 71, 43, 143>>,
       <<92, 0, 123, 138>>, <<88, 193, 102, 61>>, <<85, 130, 64, 228>>, <<81, 67, 93, 83>>,
       <<37, 29, 59, 158>>, <<33, 220, 38, 41>>, <<44, 159, 0, 240>>, <<40, 94, 29, 71>>,
       <<54, 25, 77, 66>>, <<50, 216, 80, 245>>, <<63, 155, 118, 44>>, <<59, 90, 107, 155>>,
       <<3, 21, 214, 38>>, <<7, 212, 203, 145>>, <<10, 151, 237, 72>>, <<14, 86, 240, 255>>,
       <<16, 17, 160, 250>>, <<20, 208, 189, 77>>, <<25, 147, 155, 148>>, <<29, 82, 134, 35>>,
       <<241, 47, 86, 14>>, <<245, 238, 75, 185>>, <<248, 173, 109, 96>>, <<252, 108, 112, 215>>,
       <<226, 43, 32, 210>>, <<230, 234, 61, 101>>, <<235, 169, 27, 188>>, <<239, 104, 6, 11>>,
       <<215, 39, 187, 182>>, <<211, 230, 166, 1>>, <<222, 165, 128, 216>>, <<218, 100, 157, 111>>,
       <<196, 35, 205, 106>>, <<192, 226, 208, 221>>, <<205, 161, 246, 4>>, <<201, 96, 235, 179>>,
       <<189, 62, 141, 126>>, <<185, 255, 144, 201>>, <<180, 188, 182, 16>>, <<176, 125, 171, 167>>,
       <<174, 58, 251, 162>>, <<170, 251, 230, 21>>, <<167, 184, 192, 204>>, <<163, 121, 221, 123>>,
       <<155, 54, 96, 198>>, <<159, 247, 125, 113>>, <<146, 180, 91, 168>>, <<150, 117, 70, 31>>,
       <<136, 50, 22, 26>>, <<140, 243, 11, 173>>, <<129, 176, 45, 116>>, <<133, 113, 48, 195>>,
       <<93, 138, 144, 153>>, <<89, 75, 141, 46>>, <<84, 8, 171, 247>>, <<80, 201, 182, 64>>,
       <<78, 142, 230, 69>>, <<74, 79, 251, 242>>, <<71, 12, 221, 43>>, <<67, 205, 192, 156>>,
       <<123, 130, 125, 33>>, <<127, 67, 96, 150>>, <<114, 0, 70, 79>>, <<118, 193, 91, 248>>,
       <<104, 134, 11, 253>>, <<108, 71, 22, 74>>, <<97, 4, 48, 147>>, <<101, 197, 45, 36>>,
       <<17, 155, 75, 233>>, <<21, 90, 86, 94>>, <<24, 25, 112, 135>>, <<28, 216, 109, 48>>,
       <<2, 159, 61, 53>>, <<6, 94, 32, 130>>, <<11, 29, 6, 91>>, <<15, 220, 27, 236>>,
       <<55, 147, 166, 81>>, <<51, 82, 187, 230>>, <<62, 17, 157, 63>>, <<58, 208, 128, 136>>,
       <<36, 151, 208, 141>>, <<32, 86, 205, 58>>, <<45, 21, 235, 227>>, <<41, 212, 246, 84>>,
       <<197, 169, 38, 121>>, <<193, 104, 59, 206>>, <<204, 43, 29, 23>>, <<200, 234, 0, 160>>,
       <<214, 173, 80, 165>>, <<210, 108, 77, 18>>, <<223, 47, 107, 203>>, <<219, 238, 118, 124>>,
       <<227, 161, 203, 193>>, <<231, 96, 214, 118>>, <<234, 35, 240, 175>>, <<238, 226, 237, 24>>,
       <<240, 165, 189, 29>>, <<244, 100, 160, 170>>, <<249, 39, 134, 115>>, <<253, 230, 155, 196>>,
       <<137, 184, 253, 9>>, <<141, 121, 224, 190>>, <<128, 58, 198, 103>>, <<132, 251, 219, 208>>,
       <<154, 188, 139, 213>>, <<158, 125, 150, 98>>, <<147, 62, 176, 187>>, <<151, 255, 173, 12>>,
       <<175, 176, 16, 177>>, <<171, 113, 13, 6>>, <<166, 50, 43, 223>>, <<162, 243, 54, 104>>,
       <<188, 180, 102, 109>>, <<184, 117, 123, 218>>, <<181, 54, 93, 3>>, <<177, 247, 64, 180>>
      >>[index + 1]]

\* crc_reg = (crc_reg << 8) ^ crc_lookup[((crc_reg >> 24) & 0xff) ^ byte]
CrcStep(crc, byte) ==
    Only({<<Xor8[crc[2]][t[1]], Xor8[crc[3]][t[2]], Xor8[crc[4]][t[3]], t[4]>> :
             t \in {crc_lookup[Xor8[crc[1]][byte]]}})

\* the checksum loop over bytes[lo..hi], split in halves
RECURSIVE CrcUpdate(_, _, _, _)
CrcUpdate(crc, bytes, lo, hi) ==
    IF hi < lo THEN crc
    ELSE IF lo = hi THEN CrcStep(crc, bytes[lo])
    ELSE Only({CrcUpdate(c, bytes, ((lo + hi) \div 2) + 1, hi) :
                  c \in {CrcUpdate(crc, bytes, lo, (lo + hi) \div 2)}})

ZeroChecksum(header) ==
    [i \in 1..Len(header) |->
        IF i > HEADER_CHECKSUM /\ i <= HEADER_CHECKSUM + 4 THEN 0 ELSE header[i]]

\* the four checksum bytes ogg_page_checksum_set stores at header[22..26):
\* the CRC of the header (checksum field zeroed) followed by the body
Checksum(header, body) ==
    Only({<<c[4], c[3], c[2], c[1]>> :
             c \in {Only({CrcUpdate(<<0, 0, 0, 0>>, bytes, 1, Len(bytes)) :
                             bytes \in {ZeroChecksum(header) \o body}})}})

ogg_page_checksum_set(header, body) ==
    Only({[i \in 1..Len(header) |->
              IF i > HEADER_CHECKSUM /\ i <= HEADER_CHECKSUM + 4
              THEN c[i - HEADER_CHECKSUM] ELSE header[i]] :
             c \in {Checksum(header, body)}})

(***************************************************************************)
(* validate_header (page.rs)                                               *)
(***************************************************************************)
validate_header(header) ==
    IF Len(header) < HEADER_SIZE_MIN THEN <<"TooShort">>
    ELSE IF Slice(header, 0, 4) # CapturePattern THEN <<"NoMagicString">>
    ELSE IF header[HEADER_VERSION + 1] # 0
         THEN <<"BadVersion", header[HEADER_VERSION + 1]>>
    ELSE <<"Ok">>


(***************************************************************************)
(* Page values.  A Page the caller keeps is an owned copy (Page::clone):   *)
(* its header bytes and its body bytes.                                    *)
(***************************************************************************)
OwnedPage(header, body) == [header |-> header, body |-> body]

\* impl Clone for Page, on a page whose ogg_page points into memory `mem`
\* at offset page.at: header().to_vec() and data().to_vec()
PageClone(mem, page) ==
    OwnedPage(Slice(mem, page.at, page.at + page.header_len),
              Slice(mem, page.at + page.header_len,
                    page.at + page.header_len + page.body_len))

\* Page::try_from: the lengths always convert; the header must validate
PageTryFrom(mem, page) ==
    validate_header(Slice(mem, page.at, page.at + page.header_len))

(***************************************************************************)
(* libogg: ogg_sync_state.  data holds the buffer's first `fill` bytes.    *)
(***************************************************************************)
ogg_sync_init ==
    [data |-> <<>>, returned |-> 0, unsynced |-> 0, headerbytes |-> 0,
     bodybytes |-> 0]

Fill(oy) == Len(oy.data)

\* ogg_sync_buffer: drop what was returned, then expose space at the fill mark
ogg_sync_buffer(oy) ==
    IF oy.returned > 0
    THEN [oy EXCEPT !.data = Slice(oy.data, oy.returned, Fill(oy)), !.returned = 0]
    ELSE oy

\* the bytes copied into the exposed space, then ogg_sync_wrote
ogg_sync_wrote(oy, bytes) == [oy EXCEPT !.data = oy.data \o bytes]

\* memchr(page + 1, 'O', bytes - 1): the buffer offset of the next 'O', or fill
NextCapture(data, from) ==
    LET found == {i \in from..(Len(data) - 1) : data[i + 1] = 79}
    IN  IF found = {} THEN Len(data) ELSE Least(found)

NoPage == [at |-> 0, header_len |-> 0, body_len |-> 0]

\* ogg_sync_pageseek, the block under `if(oy->headerbytes==0)`:
\* <<state, "more" | "sync_fail" | "body">>
PageseekHeader(oy) ==
    IF oy.headerbytes # 0 THEN <<oy, "body">>
    ELSE IF Fill(oy) - oy.returned < 27 THEN <<oy, "more">>
    ELSE IF Slice(oy.data, oy.returned, oy.returned + 4) # CapturePattern
         THEN <<oy, "sync_fail">>
    ELSE IF Fill(oy) - oy.returned < oy.data[oy.returned + HEADER_SEGMENTS + 1] + 27
         THEN <<oy, "more">>
    ELSE <<[oy EXCEPT
               !.bodybytes = oy.bodybytes
                   + SumRange(oy.data, oy.returned + 27 + 1,
                              oy.returned + 27 + oy.data[oy.returned + HEADER_SEGMENTS + 1]),
               !.headerbytes = oy.data[oy.returned + HEADER_SEGMENTS + 1] + 27],
           "body">>

\* does the page at o.returned carry the checksum of its bytes?
ChecksumMatches(o) ==
    Slice(o.data, o.returned + HEADER_CHECKSUM, o.returned + HEADER_CHECKSUM + 4)
        = Checksum(Slice(o.data, o.returned, o.returned + o.headerbytes),
                   Slice(o.data, o.returned + o.headerbytes,
                         o.returned + o.headerbytes + o.bodybytes))

\* ogg_sync_pageseek, label sync_fail: skip to the next 'O' (or the fill mark)
SyncFail(oy) ==
    Only({<<[oy EXCEPT !.headerbytes = 0, !.bodybytes = 0, !.returned = next],
            -(next - oy.returned), NoPage>> :
             next \in {NextCapture(oy.data, oy.returned + 1)}})

\* ogg_sync_pageseek: <<state, return value, ogg_page>>
ogg_sync_pageseek(oy) ==
    Only({IF h[2] = "more" THEN <<oy, 0, NoPage>>
          ELSE IF h[2] = "body"
                  /\ h[1].bodybytes + h[1].headerbytes > Fill(oy) - oy.returned
               THEN <<h[1], 0, NoPage>>
          ELSE IF h[2] = "sync_fail" \/ ~ChecksumMatches(h[1]) THEN SyncFail(oy)
          ELSE <<[h[1] EXCEPT !.unsynced = 0,
                              !.returned = oy.returned + h[1].headerbytes
                                               + h[1].bodybytes,
                              !.headerbytes = 0, !.bodybytes = 0],
                 h[1].headerbytes + h[1].bodybytes,
                 [at |-> oy.returned, header_len |-> h[1].headerbytes,
                  body_len |-> h[1].bodybytes]>> :
             h \in {PageseekHeader(oy)}})

\* ogg_sync_pageout: <<state, 1 | 0 | -1, ogg_page>>
RECURSIVE ogg_sync_pageout(_)
ogg_sync_pageout(oy) ==
    Only({IF r[2] > 0 THEN <<r[1], 1, r[3]>>
          ELSE IF r[2] = 0 THEN <<r[1], 0, r[3]>>
          ELSE IF r[1].unsynced = 0
               THEN <<[r[1] EXCEPT !.unsynced = 1], -1, r[3]>>
          ELSE ogg_sync_pageout(r[1]) :
             r \in {ogg_sync_pageseek(oy)}})

ogg_sync_reset(oy) ==
    [oy EXCEPT !.data = <<>>, !.returned = 0, !.unsynced = 0, !.headerbytes = 0,
               !.bodybytes = 0]

(***************************************************************************)
(* SyncState (sync_state.rs)                                               *)
(***************************************************************************)
\* SyncState::reset with a fault: ogg_sync_reset is not called
reset_forgotten(oy) == oy

\* SyncState::reset; ogg_sync_reset returns 0
reset(oy) == ogg_sync_reset(oy)

\* SyncState::is_synced
is_synced(oy) == oy.unsynced = 0

\* SyncState::write: NonZeroUsize::try_from(bytes.len()).expect(..) panics on
\* an empty slice; otherwise buffer, copy, wrote
write(oy, bytes) ==
    IF Len(bytes) = 0 THEN [panic |-> TRUE, oy |-> oy]
    ELSE [panic |-> FALSE, oy |-> ogg_sync_wrote(ogg_sync_buffer(oy), bytes)]

\* SyncState::page_out: the code of ogg_sync_pageout as a Result
page_out(oy) ==
    Only({[oy |-> r[1],
           res |-> CASE r[2] = -1 -> "OutOfSync" [] r[2] = 0 -> "InternalError"
                     [] OTHER -> "Ok",
           page |-> r[3]] :
             r \in {ogg_sync_pageout(oy)}})

\* Pushed with a fault: the page is pushed twice
PushedTwice(collected, r) ==
    Append(Append(collected,
                  [at |-> r.page.at, page |-> PageClone(r.oy.data, r.page)]),
           [at |-> r.page.at, page |-> PageClone(r.oy.data, r.page)])

\* Pushed with a fault: the page is pushed as Page::try_from made it, its
\* ogg_page pointing into the buffer of the SyncState
PushedBorrowed(collected, r) ==
    Append(collected, [at |-> r.page.at, page |-> r.page])

\* what submit_bytes does with the result r of a page_out that returned a
\* page: Page::try_from(page)? and pages.push(page.clone())
Pushed(collected, r) ==
    Append(collected, [at |-> r.page.at, page |-> PageClone(r.oy.data, r.page)])

\* the loop of submit_bytes: collect pages until page_out fails
RECURSIVE submit_loop(_, _)
submit_loop(oy, collected) ==
    Only({IF r.res # "Ok" THEN [oy |-> r.oy, kind |-> "Some", pages |-> collected]
          ELSE IF PageTryFrom(r.oy.data, r.page) # <<"Ok">>
               THEN [oy |-> r.oy, kind |-> "InvalidPage", pages |-> <<>>]
          ELSE Only({submit_loop(r.oy, pages) : pages \in {Pushed(collected, r)}}) :
             r \in {page_out(oy)}})

\* SyncState::submit_bytes: kind "Some" is Ok(Some(pages)), "None" is Ok(None),
\* "InvalidPage" is Err(InvalidPage), "Panic" is a panic.  Each page comes with
\* the buffer offset its ogg_page pointed at.
submit_bytes(oy, bytes) ==
    Only({IF w.panic THEN [oy |-> oy, kind |-> "Panic", pages |-> <<>>]
          ELSE Only({IF r.res # "Ok"
                     THEN [oy |-> r.oy, kind |-> "None", pages |-> <<>>]
                     ELSE IF PageTryFrom(r.oy.data, r.page) # <<"Ok">>
                          THEN [oy |-> r.oy, kind |-> "InvalidPage", pages |-> <<>>]
                     ELSE Only({submit_loop(r.oy, pages) :
                                   pages \in {Pushed(<<>>, r)}}) :
                        r \in {page_out(w.oy)}}) :
             w \in {write(oy, bytes)}})

(***************************************************************************)
(* Packet values (packet.rs).  A Packet holds the raw ogg_packet handed to *)
(* libogg and, when it owns its data, a PrivatePacket.  The `packet` field *)
(* of a raw ogg_packet is kept as the bytes its pointer read when the      *)
(* struct was made.  An Option is a sequence of at most one element.  A    *)
(* u64 is held as the i64 of the same bits.                                *)
(***************************************************************************)
\* PrivatePacket::new
PrivatePacketNew ==
    [data |-> <<>>, beginning_of_stream |-> FALSE, end_of_stream |-> FALSE,
     absgp |-> 0, index |-> 0]

\* PrivatePacket::ogg_packet
PrivateOggPacket(owned) ==
    [packet |-> owned.data,
     bytes |-> Len(owned.data),
     b_o_s |-> IF owned.beginning_of_stream THEN 1 ELSE 0,
     e_o_s |-> IF owned.end_of_stream THEN 1 ELSE 0,
     granulepos |-> owned.absgp,
     packetno |-> owned.index]

\* Packet::new
PacketNew == [packet |-> PrivateOggPacket(PrivatePacketNew), owned |-> <<PrivatePacketNew>>]

\* Packet::try_from
PacketTryFrom(raw) ==
    IF raw.bytes < 0 THEN <<"Usize">>
    ELSE IF raw.b_o_s \notin {0, 256} THEN <<"InvalidBeginningOfStream", raw.b_o_s>>
    ELSE IF raw.e_o_s \notin {0, 512} THEN <<"InvalidEndOfStream", raw.e_o_s>>
    ELSE <<"Ok", [packet |-> raw, owned |-> <<>>]>>

\* Packet::data
PacketData(p) ==
    IF p.owned = <<>> THEN SubSeq(p.packet.packet, 1, p.packet.bytes)
    ELSE p.owned[1].data

\* the setters: each changes the PrivatePacket and leaves the raw struct alone
set_data(p, data) == [p EXCEPT !.owned[1].data = data]

set_begins_local_stream(p, begins_logical_stream) ==
    [p EXCEPT !.owned[1].beginning_of_stream = begins_logical_stream]

set_ends_local_stream(p, ends_logical_stream) ==
    [p EXCEPT !.owned[1].end_of_stream = ends_logical_stream]

set_absgp(p, absgp) == [p EXCEPT !.owned[1].absgp = absgp]

set_index(p, index) == [p EXCEPT !.owned[1].index = index]

\* Packet::begins_logical_stream with a fault: the flag is compared with 1,
\* the value the documentation of ogg_packet gives
PacketBeginsIsOne(p) ==
    IF p.owned = <<>> THEN p.packet.b_o_s = 1 ELSE p.owned[1].beginning_of_stream

\* Packet::begins_logical_stream
PacketBegins(p) ==
    IF p.owned = <<>> THEN p.packet.b_o_s # 0 ELSE p.owned[1].beginning_of_stream

\* Packet::ends_logical_stream
PacketEnds(p) ==
    IF p.owned = <<>> THEN p.packet.e_o_s # 0 ELSE p.owned[1].end_of_stream

\* Packet::absgp
PacketAbsgp(p) ==
    IF p.owned = <<>> THEN p.packet.granulepos ELSE p.owned[1].absgp

\* Packet::index
PacketIndex(p) ==
    IF p.owned = <<>> THEN p.packet.packetno ELSE p.owned[1].index

\* impl Clone for Packet
PacketClone(p) ==
    IF p.owned # <<>>
    THEN [packet |-> PrivateOggPacket(p.owned[1]), owned |-> p.owned]
    ELSE Only({[packet |-> PrivateOggPacket(owned), owned |-> <<owned>>] :
                  owned \in {[data |-> PacketData(p),
                              beginning_of_stream |-> PacketBegins(p),
                              end_of_stream |-> PacketEnds(p),
                              absgp |-> PacketAbsgp(p),
                              index |-> PacketIndex(p)]}})

\* what a caller reads from a packet through its accessors
Observed(p) ==
    [data |-> PacketData(p), begins |-> PacketBegins(p), ends |-> PacketEnds(p),
     absgp |-> PacketAbsgp(p)]

(***************************************************************************)
(* Page accessors (page.rs) on an owned page                               *)
(***************************************************************************)
\* Page::new: an empty header and an empty body
PageNew == OwnedPage(<<>>, <<>>)

\* Page::header_type
header_type(page) == page.header[HEADER_TYPE + 1]

\* Page::continues_packet
continues_packet(page) == header_type(page) \in {1, 3, 7}

\* Page::begins_logical_stream
begins_logical_stream(page) == header_type(page) \in {2, 6, 7}

\* Page::ends_logical_stream
ends_logical_stream(page) == header_type(page) \in {4, 6, 7}

\* Page::stream_serial, where the header has the bytes it reads
stream_serial(page) ==
    FromLeSigned(Slice(page.header, HEADER_PAGE_SERIAL_NUMBER,
                       HEADER_PAGE_SERIAL_NUMBER + 4))

\* Page::index
PageIndex(page) ==
    FromLeUnsigned(Slice(page.header, HEADER_SEQUENCE_NUMBER,
                         HEADER_SEQUENCE_NUMBER + 4))

\* Page::header_mut, used to write another serial number into the header
WithSerial(page, serial) ==
    [page EXCEPT !.header =
        Slice(page.header, 0, HEADER_PAGE_SERIAL_NUMBER) \o ToLe(serial, 4)
            \o Slice(page.header, HEADER_PAGE_SERIAL_NUMBER + 4, Len(page.header))]

(***************************************************************************)
(* libogg: ogg_stream_state.  body_data holds the first body_fill bytes of *)
(* the body buffer; lacing_vals and granule_vals hold the first            *)
(* lacing_fill entries of the segment tables.  A lacing value carries the  *)
(* flags 0x100 (first segment of the stream), 0x200 (last packet of the    *)
(* stream) and 0x400 (a gap in the page sequence).                         *)
(***************************************************************************)
ogg_stream_init(serialno) ==
    [body_data |-> <<>>, body_returned |-> 0,
     lacing_vals |-> <<>>, granule_vals |-> <<>>,
     lacing_packet |-> 0, lacing_returned |-> 0,
     e_o_s |-> 0, b_o_s |-> 0,
     serialno |-> serialno, pageno |-> 0, packetno |-> 0, granulepos |-> 0]

ogg_stream_reset(os) ==
    [os EXCEPT !.body_data = <<>>, !.body_returned = 0,
               !.lacing_vals = <<>>, !.granule_vals = <<>>,
               !.lacing_packet = 0, !.lacing_returned = 0,
               !.e_o_s = 0, !.b_o_s = 0,
               !.pageno = -1, !.packetno = 0, !.granulepos = 0]

ogg_stream_eos(os) == os.e_o_s

\* val & 0xff
Lo(val) == val % 256

\* the segment sizes of a lacing table
Sizes(lacing) == [i \in 1..Len(lacing) |-> Lo(lacing[i])]

\* the largest element of a non-empty set of integers
Greatest(S) == CHOOSE x \in S : \A y \in S : y <= x

\* the indices of the segments that end a packet
PacketEnds255(sizes) == {i \in 1..Len(sizes) : sizes[i] < 255}

\* "advance packet data according to the body_returned pointer"
BodyCompact(os) ==
    IF os.body_returned > 0
    THEN [os EXCEPT !.body_data = Slice(os.body_data, os.body_returned,
                                        Len(os.body_data)),
                    !.body_returned = 0]
    ELSE os

\* PacketLacing with a fault: a packet that fills its last segment gets no
\* closing entry
PacketLacingUnclosed(bytes) ==
    [i \in 1..((bytes + 254) \div 255 + (IF bytes = 0 THEN 1 ELSE 0)) |->
        (IF i * 255 > bytes THEN bytes % 255 ELSE 255)
            + (IF i = 1 THEN 256 ELSE 0)]

\* the lacing values ogg_stream_iovecin stores for a packet of `bytes` bytes
PacketLacing(bytes) ==
    [i \in 1..(bytes \div 255 + 1) |->
        (IF i = bytes \div 255 + 1 THEN bytes % 255 ELSE 255)
            + (IF i = 1 THEN 256 ELSE 0)]

\* ogg_stream_packetin (ogg_stream_iovecin on op->packet, op->bytes,
\* op->e_o_s, op->granulepos): <<state, return value>>
ogg_stream_packetin(os, op) ==
    Only({<<[o EXCEPT
               !.body_data = o.body_data \o SubSeq(op.packet, 1, op.bytes),
               !.lacing_vals = o.lacing_vals \o PacketLacing(op.bytes),
               !.granule_vals = o.granule_vals \o
                   [i \in 1..(op.bytes \div 255 + 1) |->
                       IF i = op.bytes \div 255 + 1 THEN op.granulepos
                       ELSE o.granulepos],
               !.granulepos = op.granulepos,
               !.packetno = o.packetno + 1,
               !.e_o_s = IF op.e_o_s # 0 THEN 1 ELSE o.e_o_s],
            0>> :
             o \in {BodyCompact(os)}})

\* ogg_stream_flush_i, the choice of the segments of the page:
\* [vals, force, granule_pos]
FlushCount(os, force, nfill) ==
    Only({IF os.b_o_s = 0
          THEN \* 'initial header page' case: the first packet alone
               [vals |-> IF PacketEnds255(sizes) = {} THEN Len(sizes)
                         ELSE Least(PacketEnds255(sizes)),
                force |-> force,
                granule_pos |-> 0]
          ELSE Only({[vals |-> vals,
                      force |-> force \/ vals < Len(sizes) \/ vals = 255,
                      granule_pos |->
                          IF PacketEnds255(SubSeq(sizes, 1, vals)) = {} THEN -1
                          ELSE os.granule_vals[
                                   Greatest(PacketEnds255(SubSeq(sizes, 1, vals)))]] :
                        vals \in {Least(
                            {v \in 0..(Len(sizes) - 1) :
                                /\ v > 0
                                /\ sizes[v] < 255
                                /\ Cardinality(PacketEnds255(SubSeq(sizes, 1, v))) >= 4
                                /\ SumRange(sizes, 1, v) > nfill}
                            \cup {Len(sizes)})}}) :
             sizes \in {Sizes(SubSeq(os.lacing_vals, 1,
                                     IF Len(os.lacing_vals) > 255 THEN 255
                                     ELSE Len(os.lacing_vals)))}})

\* ogg_stream_flush_i, the construction of the page from the first c.vals
\* segments: <<state, 1, page>>
FlushPage(os, c) ==
    Only({<<[os EXCEPT
               !.b_o_s = 1,
               !.pageno = (IF os.pageno = -1 THEN 0 ELSE os.pageno) + 1,
               !.lacing_vals = Slice(os.lacing_vals, c.vals, Len(os.lacing_vals)),
               !.granule_vals = Slice(os.granule_vals, c.vals, Len(os.granule_vals)),
               !.body_returned = os.body_returned + Len(body)],
            1,
            OwnedPage(
                ogg_page_checksum_set(
                    CapturePattern
                    \o <<0,
                         (IF (os.lacing_vals[1] \div 256) % 2 = 0 THEN 1 ELSE 0)
                         + (IF os.b_o_s = 0 THEN 2 ELSE 0)
                         + (IF os.e_o_s # 0 /\ Len(os.lacing_vals) = c.vals
                            THEN 4 ELSE 0)>>
                    \o ToLe(c.granule_pos, 8)
                    \o ToLe(os.serialno, 4)
                    \o ToLe(IF os.pageno = -1 THEN 0 ELSE os.pageno, 4)
                    \o <<0, 0, 0, 0>>
                    \o <<c.vals>>
                    \o Sizes(SubSeq(os.lacing_vals, 1, c.vals)),
                    body),
                body)>> :
             body \in {Slice(os.body_data, os.body_returned,
                             os.body_returned
                                 + SumSeq(Sizes(SubSeq(os.lacing_vals, 1, c.vals))))}})

\* ogg_stream_flush_i: <<state, return value, page>>
ogg_stream_flush_i(os, force, nfill) ==
    IF Len(os.lacing_vals) = 0 THEN <<os, 0, PageNew>>
    ELSE Only({IF ~c.force THEN <<os, 0, PageNew>> ELSE FlushPage(os, c) :
                  c \in {FlushCount(os, force, nfill)}})

\* ogg_stream_flush
ogg_stream_flush(os) == ogg_stream_flush_i(os, TRUE, 4096)

\* ogg_stream_pageout
ogg_stream_pageout(os) ==
    ogg_stream_flush_i(os,
        \/ os.e_o_s # 0 /\ Len(os.lacing_vals) > 0
        \/ Len(os.lacing_vals) > 0 /\ os.b_o_s = 0,
        4096)

\* ogg_stream_flush_fill: nfill is the amount of body after which a page
\* that holds four packets or more is closed
ogg_stream_flush_fill(os, nfill) == ogg_stream_flush_i(os, TRUE, nfill)

\* ogg_stream_pageout_fill
ogg_stream_pageout_fill(os, nfill) ==
    ogg_stream_flush_i(os,
        \/ os.e_o_s # 0 /\ Len(os.lacing_vals) > 0
        \/ Len(os.lacing_vals) > 0 /\ os.b_o_s = 0,
        nfill)

\* ogg_stream_pagein, "clean up 'returned data'"
PageinCleanup(os) ==
    Only({IF o.lacing_returned > 0
          THEN [o EXCEPT
                  !.lacing_vals = Slice(o.lacing_vals, o.lacing_returned,
                                        Len(o.lacing_vals)),
                  !.granule_vals = Slice(o.granule_vals, o.lacing_returned,
                                         Len(o.granule_vals)),
                  !.lacing_packet = o.lacing_packet - o.lacing_returned,
                  !.lacing_returned = 0]
          ELSE o :
             o \in {BodyCompact(os)}})

\* ogg_stream_pagein, "are we in sequence?": unroll the partial packet and
\* note the dropped data in the segment table
PageinSequence(os, pageno) ==
    IF pageno = os.pageno THEN os
    ELSE Only({IF os.pageno # -1
               THEN [o EXCEPT !.lacing_vals = Append(o.lacing_vals, 1024),
                              !.granule_vals = Append(o.granule_vals, -1),
                              !.lacing_packet = o.lacing_packet + 1]
               ELSE o :
                  o \in {[os EXCEPT
                            !.body_data =
                                SubSeq(os.body_data, 1,
                                       Len(os.body_data)
                                           - SumSeq(Sizes(Slice(os.lacing_vals,
                                                                os.lacing_packet,
                                                                Len(os.lacing_vals))))),
                            !.lacing_vals = SubSeq(os.lacing_vals, 1, os.lacing_packet),
                            !.granule_vals = SubSeq(os.granule_vals, 1, os.lacing_packet)]}})

\* ogg_stream_pagein, the segments of a 'continued packet' page to skip: all
\* up to the end of its first packet when there is nothing to continue
PageinSkip(os, continued, segs) ==
    IF /\ continued
       /\ \/ Len(os.lacing_vals) < 1
          \/ Lo(os.lacing_vals[Len(os.lacing_vals)]) < 255
          \/ os.lacing_vals[Len(os.lacing_vals)] = 1024
    THEN IF PacketEnds255(segs) = {} THEN Len(segs) ELSE Least(PacketEnds255(segs))
    ELSE 0

\* ogg_stream_pagein, the copy of the body and of the segment table from
\* segment `skip` on; bos marks the first segment, eos the last
PageinStore(os, segs, skip, body, bos, eos, granulepos, pageno) ==
    Only({[os EXCEPT
             !.body_data = os.body_data \o Slice(body, SumRange(segs, 1, skip), Len(body)),
             !.lacing_vals =
                 Only({IF eos /\ Len(lv) > 0
                       THEN [lv EXCEPT ![Len(lv)] = lv[Len(lv)] + 512 - ((lv[Len(lv)] \div 512) % 2) * 512]
                       ELSE lv :
                          lv \in {os.lacing_vals \o
                                  [i \in 1..Len(kept) |->
                                      kept[i] + (IF bos /\ i = 1 THEN 256 ELSE 0)]}}),
             !.granule_vals =
                 os.granule_vals \o
                     [i \in 1..Len(kept) |->
                         IF PacketEnds255(kept) # {} /\ i = Greatest(PacketEnds255(kept))
                         THEN granulepos ELSE -1],
             !.lacing_packet =
                 IF PacketEnds255(kept) = {} THEN os.lacing_packet
                 ELSE Len(os.lacing_vals) + Greatest(PacketEnds255(kept)),
             !.e_o_s = IF eos THEN 1 ELSE os.e_o_s,
             !.pageno = pageno + 1] :
             kept \in {Slice(segs, skip, Len(segs))}})

\* ogg_stream_pagein on a page of `header` and `body`: <<state, 0 | -1>>
ogg_stream_pagein(os, og) ==
    Only({IF FromLeSigned(Slice(og.header, 14, 18)) # o.serialno THEN <<o, -1>>
          ELSE IF og.header[5] > 0 THEN <<o, -1>>
          ELSE Only({
                 Only({<<PageinStore(q, segs, skip, og.body,
                                     BitSet(og.header[6], 2) /\ skip = 0,
                                     BitSet(og.header[6], 4),
                                     FromLeSigned(Slice(og.header, 6, 14)),
                                     FromLeUnsigned(Slice(og.header, 18, 22))), 0>> :
                        skip \in {PageinSkip(q, BitSet(og.header[6], 1), segs)}}) :
                    q \in {PageinSequence(o, FromLeUnsigned(Slice(og.header, 18, 22)))},
                    segs \in {Slice(og.header, 27, 27 + og.header[27])}}) :
             o \in {PageinCleanup(os)}})

\* a packet as ogg_stream_packetout leaves it unset
NoPacket ==
    [packet |-> <<>>, bytes |-> 0, b_o_s |-> 0, e_o_s |-> 0, granulepos |-> 0,
     packetno |-> 0]

\* _packetout, "Gather the whole packet": the index of its last segment
LastSegment(os) ==
    Least({i \in (os.lacing_returned + 1)..Len(os.lacing_vals) :
              Lo(os.lacing_vals[i]) < 255} \cup {Len(os.lacing_vals)})

\* libogg _packetout(os, op, adv): <<state, 1 | 0 | -1, ogg_packet>>
packetout(os, adv) ==
    IF os.lacing_packet <= os.lacing_returned THEN <<os, 0, NoPacket>>
    ELSE IF BitSet(os.lacing_vals[os.lacing_returned + 1], 1024)
         THEN <<[os EXCEPT !.lacing_returned = os.lacing_returned + 1,
                           !.packetno = os.packetno + 1],
                -1, NoPacket>>
    ELSE Only({<<IF adv
                 THEN [os EXCEPT !.body_returned = os.body_returned + bytes,
                                 !.lacing_returned = last_seg,
                                 !.packetno = os.packetno + 1]
                 ELSE os,
                 1,
                 [packet |-> Slice(os.body_data, os.body_returned,
                                   os.body_returned + bytes),
                  bytes |-> bytes,
                  e_o_s |-> IF \E i \in (os.lacing_returned + 1)..last_seg :
                                  BitSet(os.lacing_vals[i], 512)
                            THEN 512 ELSE 0,
                  b_o_s |-> IF BitSet(os.lacing_vals[os.lacing_returned + 1], 256)
                            THEN 256 ELSE 0,
                  granulepos |-> os.granule_vals[last_seg],
                  packetno |-> os.packetno]>> :
                 last_seg \in {LastSegment(os)},
                 bytes \in {SumRange(Sizes(os.lacing_vals), os.lacing_returned + 1,
                                     LastSegment(os))}})

ogg_stream_packetout(os) == packetout(os, TRUE)

ogg_stream_packetpeek(os) == packetout(os, FALSE)

(***************************************************************************)
(* Stream (stream_state.rs).  Each operation returns the Stream after it   *)
(* and its result; a packet or page it returns is the one in the buffer.   *)
(***************************************************************************)
\* Stream::new
StreamNew(serial) ==
    [stream_state |-> ogg_stream_init(serial), has_pages |-> FALSE,
     page_buffer |-> <<>>, packet_buffer |-> <<>>]

\* self.page_buffer = None; self.packet_buffer = None
Clear(s) == [s EXCEPT !.page_buffer = <<>>, !.packet_buffer = <<>>]

\* Stream::reset with a fault: has_pages is left as it was
Stream_reset_keeps_has_pages(s) ==
    [s |-> [Clear(s) EXCEPT !.stream_state = ogg_stream_reset(s.stream_state)],
     res |-> "Ok"]

\* Stream::reset
Stream_reset(s) ==
    [s |-> [Clear(s) EXCEPT !.stream_state = ogg_stream_reset(s.stream_state),
                            !.has_pages = FALSE],
     res |-> "Ok"]

\* Stream::end_of_stream with a fault: the Stream has ended only once it
\* holds no complete packet
Stream_end_of_stream_drained(s) ==
    [s |-> Clear(s),
     res |-> /\ ogg_stream_eos(s.stream_state) = 1
             /\ s.stream_state.lacing_packet <= s.stream_state.lacing_returned]

\* Stream::end_of_stream
Stream_end_of_stream(s) ==
    [s |-> Clear(s), res |-> ogg_stream_eos(s.stream_state) = 1]

\* Stream::page_in without the comparison of the serial numbers
Stream_page_in_unchecked(s, page) ==
    IF Len(page.header) < HEADER_PAGE_SERIAL_NUMBER + 4
    THEN [s |-> Clear(s), res |-> "Panic"]
    ELSE Only({IF r[2] = -1
               THEN [s |-> [Clear(s) EXCEPT !.stream_state = r[1]],
                     res |-> "InternalError"]
               ELSE [s |-> [Clear(s) EXCEPT !.stream_state = r[1],
                                            !.has_pages = TRUE],
                     res |-> "Ok"] :
                  r \in {ogg_stream_pagein(s.stream_state, page)}})

\* Stream::page_in; page.stream_serial() panics on a header that ends
\* before the serial number
Stream_page_in(s, page) ==
    IF Len(page.header) < HEADER_PAGE_SERIAL_NUMBER + 4
    THEN [s |-> Clear(s), res |-> "Panic"]
    ELSE IF stream_serial(page) # s.stream_state.serialno
         THEN [s |-> Clear(s), res |-> "WrongSerial"]
    ELSE Only({IF r[2] = -1
               THEN [s |-> [Clear(s) EXCEPT !.stream_state = r[1]],
                     res |-> "InternalError"]
               ELSE [s |-> [Clear(s) EXCEPT !.stream_state = r[1],
                                            !.has_pages = TRUE],
                     res |-> "Ok"] :
                  r \in {ogg_stream_pagein(s.stream_state, page)}})

\* PacketResult with a fault: the code -1 is taken for need-more-data
PacketResultNoSync(s, r) ==
    IF r[2] = -1 \/ r[2] = 0
    THEN [s |-> [Clear(s) EXCEPT !.stream_state = r[1]], res |-> "InternalError"]
    ELSE IF PacketTryFrom(r[3])[1] # "Ok"
    THEN [s |-> [Clear(s) EXCEPT !.stream_state = r[1]], res |-> "Panic"]
    ELSE [s |-> [Clear(s) EXCEPT !.stream_state = r[1],
                                 !.packet_buffer = <<PacketTryFrom(r[3])[2]>>],
          res |-> "Ok"]

\* the match on the code of ogg_stream_packetout / ogg_stream_packetpeek,
\* r = <<state, code, ogg_packet>>
PacketResult(s, r) ==
    IF r[2] = -1
    THEN [s |-> [Clear(s) EXCEPT !.stream_state = r[1]], res |-> "OutOfSync"]
    ELSE IF r[2] = 0
    THEN [s |-> [Clear(s) EXCEPT !.stream_state = r[1]], res |-> "InternalError"]
    ELSE IF PacketTryFrom(r[3])[1] # "Ok"
    THEN [s |-> [Clear(s) EXCEPT !.stream_state = r[1]], res |-> "Panic"]
    ELSE [s |-> [Clear(s) EXCEPT !.stream_state = r[1],
                                 !.packet_buffer = <<PacketTryFrom(r[3])[2]>>],
          res |-> "Ok"]

\* Stream::packet_out
Stream_packet_out(s) ==
    IF ~s.has_pages THEN [s |-> Clear(s), res |-> "NoPages"]
    ELSE Only({PacketResult(s, r) : r \in {ogg_stream_packetout(s.stream_state)}})

\* Stream::packet_peek
Stream_packet_peek(s) ==
    IF ~s.has_pages THEN [s |-> Clear(s), res |-> "NoPages"]
    ELSE Only({PacketResult(s, r) : r \in {ogg_stream_packetpeek(s.stream_state)}})

\* Stream::packet_in: libogg is given the raw struct packet.packet
Stream_packet_in(s, packet) ==
    Only({IF r[2] = -1
          THEN [s |-> [Clear(s) EXCEPT !.stream_state = r[1]],
                res |-> "InternalError"]
          ELSE [s |-> [Clear(s) EXCEPT !.stream_state = r[1], !.has_pages = TRUE],
                res |-> "Ok"] :
             r \in {ogg_stream_packetin(s.stream_state, packet.packet)}})

\* the match on the code of ogg_stream_pageout / ogg_stream_flush,
\* r = <<state, code, ogg_page>>; Page::try_from(..).expect(..) panics on a
\* header validate_header refuses
PageResult(s, r) ==
    IF r[2] = 0
    THEN [s |-> [Clear(s) EXCEPT !.stream_state = r[1]], res |-> "InternalError"]
    ELSE IF validate_header(r[3].header) # <<"Ok">>
    THEN [s |-> [Clear(s) EXCEPT !.stream_state = r[1]], res |-> "Panic"]
    ELSE [s |-> [Clear(s) EXCEPT !.stream_state = r[1], !.page_buffer = <<r[3]>>],
          res |-> "Ok"]

\* Stream::page_out
Stream_page_out(s) ==
    Only({PageResult(s, r) : r \in {ogg_stream_pageout(s.stream_state)}})

\* Stream::page_flush with a fault: it calls ogg_stream_pageout
Stream_page_flush_as_out(s) ==
    Only({PageResult(s, r) : r \in {ogg_stream_pageout(s.stream_state)}})

\* Stream::page_flush
Stream_page_flush(s) ==
    Only({PageResult(s, r) : r \in {ogg_stream_flush(s.stream_state)}})

\* Stream::page_out_with_max_size
Stream_page_out_with_max_size(s, size) ==
    Only({PageResult(s, r) : r \in {ogg_stream_pageout_fill(s.stream_state, size)}})

\* Stream::page_flush_with_max_size
Stream_page_flush_with_max_size(s, size) ==
    Only({PageResult(s, r) : r \in {ogg_stream_flush_fill(s.stream_state, size)}})

(***************************************************************************)
(* The byte streams the caller reads from: pages in the wire format, with  *)
(* garbage and corruption.                                                 *)
(***************************************************************************)
MaxGarbage == 2
MaxCalls == 4
MaxHeaderLen == 29

\* a page as libogg's encoder lays it out: header, segment table, checksum
BuildPage(htype, granule, serial, pageno, lacing, body) ==
    OwnedPage(
        ogg_page_checksum_set(
            CapturePattern \o <<0, htype>> \o ToLe(granule, 8)
                \o ToLe(serial, 4) \o ToLe(pageno, 4) \o <<0, 0, 0, 0>>
                \o <<Len(lacing)>> \o lacing,
            body),
        body)

PageBytes(p) == p.header \o p.body

\* a first page, a page whose body holds an 'O', and a last page of no segments
PageA == BuildPage(2, 0, 5, 0, <<1>>, <<65>>)
PageB == BuildPage(0, 1, 5, 1, <<2>>, <<79, 103>>)
PageZ == BuildPage(4, 1, 5, 2, <<>>, <<>>)

\* a frame with one body byte damaged in transit
Corrupt(bytes) == [bytes EXCEPT ![Len(bytes)] = (bytes[Len(bytes)] + 1) % 256]

GarbageBytes == {7, 79}

Garbage ==
    UNION {[1..n -> GarbageBytes] : n \in 1..MaxGarbage}

Tails ==
    { PageBytes(PageA),
      PageBytes(PageA) \o PageBytes(PageB),
      PageBytes(PageA) \o Corrupt(PageBytes(PageB)) \o PageBytes(PageB),
      PageBytes(PageB) \o PageBytes(PageZ) \o PageBytes(PageA) }

Scripts == Tails \cup {g \o t : g \in Garbage, t \in Tails}

\* the byte slices validate_header is tried on: prefixes of a page header,
\* some with a damaged capture pattern or another version
HeaderTemplate ==
    BuildPage(0, 1, 5, 1, [i \in 1..(MaxHeaderLen - 27) |-> 1],
              [i \in 1..(MaxHeaderLen - 27) |-> 65]).header

Headers ==
    LET damaged == {HeaderTemplate}
            \cup {[HeaderTemplate EXCEPT ![i] = 0] : i \in 1..4}
            \cup {[HeaderTemplate EXCEPT ![HEADER_VERSION + 1] = v] : v \in {1, 255}}
            \cup {[HeaderTemplate EXCEPT ![1] = 0, ![HEADER_VERSION + 1] = 1]}
    IN  {SubSeq(h, 1, n) : h \in damaged, n \in 0..MaxHeaderLen}

(***************************************************************************)
(* State                                                                   *)
(***************************************************************************)
NoCall == [arg |-> <<>>, kind |-> "NoCall", pages |-> <<>>]

\* no submit_bytes call in progress
NoRun == [pc |-> "idle", collected |-> <<>>, kind |-> "NoCall", from |-> ogg_sync_init,
          arg |-> <<>>, dropped |-> <<>>, refused |-> NoPage]

\* SyncState::new, no submit_bytes call made
NoTwin == [oy |-> ogg_sync_init, kind |-> "NoCall", pages |-> <<>>]

IdleHeader == /\ vh_header = <<>>
              /\ vh_result = <<"none">>
              /\ page_flags = <<>>

IdleSync == /\ sync_state = ogg_sync_init
            /\ script = <<>>
            /\ pos = 0
            /\ last = NoCall
            /\ calls = 0
            /\ consumed = 0
            /\ delivered = <<>>
            /\ twin = NoTwin
            /\ held = <<>>
            /\ seen = <<>>
            /\ run = NoRun

headerVars == <<vh_header, vh_result, page_flags>>
syncVars == <<sync_state, script, pos, last, calls, consumed, delivered, twin,
              held, seen, run>>

(***************************************************************************)
(* A sender and a receiver.  The sender builds packets with Packet::new    *)
(* and the setters, submits them (or clones of them) to the Stream "enc"   *)
(* and keeps a clone of every page it gets out.  The receiver feeds those  *)
(* pages in order to the Stream "dec" and takes packets out.  A page may   *)
(* be lost on the way or have another serial number written into it.      *)
(***************************************************************************)
MaxPackets == 2

\* the serial numbers written into pages; the Streams have the least of them
Serials == {5, -2}

\* a 255-byte packet: its last segment would be exactly 255 bytes
Run255 == [i \in 1..255 |-> i % 7]

FirstPacket == [data |-> <<65>>, begins |-> TRUE, ends |-> FALSE, absgp |-> 0]

PacketPool ==
    { FirstPacket,
      [data |-> <<>>, begins |-> FALSE, ends |-> FALSE, absgp |-> 7],
      [data |-> Run255, begins |-> FALSE, ends |-> TRUE, absgp |-> 7] }

\* Packet::new and the setters
BuildPacket(pk) ==
    set_absgp(
        set_ends_local_stream(
            set_begins_local_stream(set_data(PacketNew, pk.data), pk.begins),
            pk.ends),
        pk.absgp)

Roles == {"enc", "dec"}

NoOp == [op |-> "none", stream |-> "none", res |-> "none", value |-> <<>>]

IdleStream == /\ streams = [r \in Roles |-> StreamNew(0)]
              /\ wire = <<>>
              /\ fed = 0
              /\ sent = <<>>
              /\ got = <<>>
              /\ s_last = NoOp
              /\ accepted = [r \in Roles |-> FALSE]
              /\ tampered = FALSE
              /\ arrived = <<>>
              /\ outs = <<>>
              /\ given = <<>>

streamVars == <<streams, wire, fed, sent, got, s_last, accepted, tampered,
                arrived, outs, given>>

(***************************************************************************)
(* validate_header on every slice of Headers                               *)
(***************************************************************************)
HeaderInit == /\ aborted = FALSE
              /\ vh_header \in Headers
              /\ vh_result = <<"none">>
              /\ page_flags = <<>>
              /\ IdleSync
              /\ IdleStream

Validate == /\ vh_result = <<"none">>
            /\ vh_result' = validate_header(vh_header)
            /\ UNCHANGED <<aborted, vh_header, page_flags, syncVars, streamVars>>

HeaderNext == Validate

SpecHeader == HeaderInit /\ [][HeaderNext]_vars

(***************************************************************************)
(* The flag accessors of a Page, on a page of every header-type byte       *)
(***************************************************************************)
\* a page whose header-type byte is t
TypedPage(t) == BuildPage(t, 0, 5, 0, <<1>>, <<65>>)

FlagsInit == /\ aborted = FALSE
             /\ vh_header \in {TypedPage(t).header : t \in Byte}
             /\ vh_result = <<"none">>
             /\ page_flags = <<>>
             /\ IdleSync
             /\ IdleStream

\* page.continues_packet(), page.begins_logical_stream() and
\* page.ends_logical_stream() on the owned page of header vh_header
ReadFlags ==
    /\ page_flags = <<>>
    /\ \E page \in {OwnedPage(vh_header, <<65>>)} :
          page_flags' = <<continues_packet(page), begins_logical_stream(page),
                          ends_logical_stream(page)>>
    /\ UNCHANGED <<aborted, vh_header, vh_result, syncVars, streamVars>>

FlagsNext == ReadFlags

SpecFlags == FlagsInit /\ [][FlagsNext]_vars

(***************************************************************************)
(* The caller of a SyncState: SyncState::new, then submit_bytes on         *)
(* successive pieces of the byte stream.  The first piece has any length;  *)
(* later pieces are empty, one byte, or all that is left.                  *)
(***************************************************************************)
SyncInit == /\ aborted = FALSE
            /\ IdleHeader
            /\ sync_state = ogg_sync_init
            /\ script \in Scripts
            /\ pos = 0
            /\ last = NoCall
            /\ calls = 0
            /\ consumed = 0
            /\ delivered = <<>>
            /\ twin = NoTwin
            /\ held = <<>>
            /\ seen = <<>>
            /\ run = NoRun
            /\ IdleStream

ChunkSizes == IF calls = 0 THEN 0..Len(script)
              ELSE {0, 1, Len(script) - pos}

Submit(k) ==
    /\ ~aborted
    /\ calls < MaxCalls
    /\ pos + k <= Len(script)
    /\ \E bytes \in {SubSeq(script, pos + 1, pos + k)} :
       \E r \in {submit_bytes(sync_state, bytes)} :
       \* ogg_sync_buffer dropped the returned bytes before the write
       \E base \in {IF r.kind = "Panic" THEN consumed
                    ELSE consumed + sync_state.returned} :
           /\ sync_state' = r.oy
           /\ aborted' = (r.kind = "Panic")
           /\ pos' = pos + k
           /\ calls' = calls + 1
           /\ consumed' = base
           /\ last' = [arg |-> bytes, kind |-> r.kind,
                       pages |-> [i \in 1..Len(r.pages) |-> r.pages[i].page]]
           /\ delivered' = delivered \o
                  [i \in 1..Len(r.pages) |->
                      [off |-> base + r.pages[i].at, page |-> r.pages[i].page]]
    /\ UNCHANGED <<script, twin, held, seen, run, headerVars, streamVars>>

SyncNext == \E k \in ChunkSizes : Submit(k)

SpecSync == SyncInit /\ [][SyncNext]_vars

(***************************************************************************)
(* The caller of a SyncState that may reset it.  Beside it runs a twin:    *)
(* a SyncState created anew at every reset and given the same pieces.      *)
(***************************************************************************)
\* submit_bytes on the SyncState and on its twin
SubmitBoth(k) ==
    /\ ~aborted
    /\ calls < MaxCalls
    /\ pos + k <= Len(script)
    /\ \E bytes \in {SubSeq(script, pos + 1, pos + k)} :
       \E r \in {submit_bytes(sync_state, bytes)} :
       \E t \in {submit_bytes(twin.oy, bytes)} :
       \E base \in {IF r.kind = "Panic" THEN consumed
                    ELSE consumed + sync_state.returned} :
           /\ sync_state' = r.oy
           /\ aborted' = (r.kind = "Panic")
           /\ consumed' = base
           /\ last' = [arg |-> bytes, kind |-> r.kind,
                       pages |-> [i \in 1..Len(r.pages) |-> r.pages[i].page]]
           /\ delivered' = delivered \o
                  [i \in 1..Len(r.pages) |->
                      [off |-> base + r.pages[i].at, page |-> r.pages[i].page]]
           /\ twin' = [oy |-> t.oy, kind |-> t.kind,
                       pages |-> [i \in 1..Len(t.pages) |-> t.pages[i].page]]
    /\ pos' = pos + k
    /\ calls' = calls + 1
    /\ UNCHANGED <<script, held, seen, run, headerVars, streamVars>>

\* sync_state.reset()
SyncReset ==
    /\ ~aborted
    /\ sync_state' = reset(sync_state)
    /\ twin' = NoTwin
    /\ last' = NoCall
    /\ consumed' = pos
    /\ UNCHANGED <<aborted, script, pos, calls, delivered, held, seen, run, headerVars,
                   streamVars>>

SyncResetNext ==
    \/ \E k \in ChunkSizes : SubmitBoth(k)
    \/ SyncReset

SpecSyncReset == SyncInit /\ [][SyncResetNext]_vars

(***************************************************************************)
(* The sender and the receiver                                             *)
(***************************************************************************)
StreamInit == /\ aborted = FALSE
              /\ IdleHeader
              /\ IdleSync
              /\ streams = [r \in Roles |-> StreamNew(Least(Serials))]
              /\ wire = <<>>
              /\ fed = 0
              /\ sent = <<>>
              /\ got = <<>>
              /\ s_last = NoOp
              /\ accepted = [r \in Roles |-> FALSE]
              /\ tampered = FALSE
              /\ arrived = <<>>
              /\ outs = <<>>
              /\ given = <<>>

\* the record of an operation: which, on which stream, its result, and the
\* packet or page it returned
Did(op, stream, res, value) ==
    [op |-> op, stream |-> stream, res |-> res, value |-> value]

\* a packet as the caller reads it, with its index
Read(p) ==
    [data |-> PacketData(p), begins |-> PacketBegins(p), ends |-> PacketEnds(p),
     absgp |-> PacketAbsgp(p), index |-> PacketIndex(p)]

\* enc.packet_in(&mut packet), on the packet itself or on a clone of it
EncPacketIn(pk, cloned) ==
    /\ ~aborted
    /\ Len(sent) < MaxPackets
    /\ \E packet \in {BuildPacket(pk)} :
       \E r \in {Stream_packet_in(streams["enc"],
                                  IF cloned THEN PacketClone(packet) ELSE packet)} :
          /\ streams' = [streams EXCEPT !["enc"] = r.s]
          /\ sent' = Append(sent, Observed(packet))
          /\ s_last' = Did("packet_in", "enc", r.res, <<>>)
    /\ UNCHANGED <<aborted, headerVars, syncVars, wire, fed, got, accepted, tampered,
                   arrived, outs, given>>

\* what the sender does with the result r of page_out or page_flush
TakePage(op, r) ==
    /\ streams' = [streams EXCEPT !["enc"] = r.s]
    /\ aborted' = (r.res = "Panic")
    /\ wire' = IF r.res = "Ok"
               THEN Append(wire, OwnedPage(r.s.page_buffer[1].header,
                                           r.s.page_buffer[1].body))
               ELSE wire
    /\ s_last' = Did(op, "enc", r.res, r.s.page_buffer)
    /\ UNCHANGED <<headerVars, syncVars, fed, sent, got, accepted, tampered,
                   arrived, outs, given>>

\* enc.page_out().map(Page::clone)
EncPageOut ==
    /\ ~aborted
    /\ \E r \in {Stream_page_out(streams["enc"])} : TakePage("page_out", r)

\* enc.page_flush().map(Page::clone)
EncPageFlush ==
    /\ ~aborted
    /\ \E r \in {Stream_page_flush(streams["enc"])} : TakePage("page_flush", r)

\* dec.page_in(&mut page) on the next page of the wire, as it is or with
\* the serial number `serial` written into its header
DecPageIn(serial) ==
    /\ ~aborted
    /\ fed < Len(wire)
    /\ \E page \in {IF serial = stream_serial(wire[fed + 1]) THEN wire[fed + 1]
                    ELSE WithSerial(wire[fed + 1], serial)} :
       \E r \in {Stream_page_in(streams["dec"], page)} :
          /\ streams' = [streams EXCEPT !["dec"] = r.s]
          /\ aborted' = (r.res = "Panic")
          /\ accepted' = [accepted EXCEPT !["dec"] = @ \/ r.res = "Ok"]
          /\ tampered' = (tampered \/ page # wire[fed + 1])
          /\ s_last' = Did("page_in", "dec", r.res, <<page>>)
    /\ fed' = fed + 1
    /\ UNCHANGED <<headerVars, syncVars, wire, sent, got, arrived, outs, given>>

\* dec.page_in(&mut Page::new())
DecPageInNew ==
    /\ ~aborted
    /\ \E r \in {Stream_page_in(streams["dec"], PageNew)} :
          /\ streams' = [streams EXCEPT !["dec"] = r.s]
          /\ aborted' = (r.res = "Panic")
          /\ accepted' = [accepted EXCEPT !["dec"] = @ \/ r.res = "Ok"]
          /\ s_last' = Did("page_in", "dec", r.res, <<PageNew>>)
    /\ tampered' = TRUE
    /\ UNCHANGED <<headerVars, syncVars, wire, fed, sent, got, arrived, outs, given>>

\* the next page of the wire never reaches the receiver
Lose ==
    /\ ~aborted
    /\ fed < Len(wire)
    /\ fed' = fed + 1
    /\ tampered' = TRUE
    /\ s_last' = Did("lose", "none", "none", <<>>)
    /\ UNCHANGED <<aborted, headerVars, syncVars, streams, wire, sent, got, accepted,
                   arrived, outs, given>>

\* what the caller does with the result r of packet_out or packet_peek
TakePacket(op, role, r) ==
    /\ streams' = [streams EXCEPT ![role] = r.s]
    /\ aborted' = (r.res = "Panic")
    /\ s_last' = Did(op, role, r.res,
                     IF r.res = "Ok" THEN <<Read(r.s.packet_buffer[1])>> ELSE <<>>)
    /\ got' = IF op = "packet_out" /\ role = "dec" /\ r.res = "Ok"
              THEN Append(got, Observed(r.s.packet_buffer[1]))
              ELSE got
    /\ UNCHANGED <<headerVars, syncVars, wire, fed, sent, accepted, tampered,
                   arrived, outs, given>>

\* packet_out on either stream
PacketOut(role) ==
    /\ ~aborted
    /\ \E r \in {Stream_packet_out(streams[role])} : TakePacket("packet_out", role, r)

\* packet_peek on either stream
PacketPeek(role) ==
    /\ ~aborted
    /\ \E r \in {Stream_packet_peek(streams[role])} : TakePacket("packet_peek", role, r)

\* reset on a stream
Reset(role) ==
    /\ ~aborted
    /\ \E r \in {Stream_reset(streams[role])} :
          /\ streams' = [streams EXCEPT ![role] = r.s]
          /\ s_last' = Did("reset", role, r.res, <<>>)
    /\ accepted' = [accepted EXCEPT ![role] = FALSE]
    /\ tampered' = TRUE
    /\ UNCHANGED <<aborted, headerVars, syncVars, wire, fed, sent, got,
                   arrived, outs, given>>

StreamNext ==
    \/ \E pk \in PacketPool : EncPacketIn(pk, TRUE)
    \/ EncPacketIn(FirstPacket, FALSE)
    \/ EncPageOut
    \/ EncPageFlush
    \/ \E serial \in Serials : DecPageIn(serial)
    \/ DecPageInNew
    \/ Lose
    \/ \E role \in Roles : PacketOut(role)
    \/ \E role \in Roles : PacketPeek(role)
    \/ Reset("dec")

SpecStream == StreamInit /\ [][StreamNext]_vars

\* the sender and the receiver, each of which may reset its Stream
ResetNext ==
    \/ StreamNext
    \/ Reset("enc")

SpecReset == StreamInit /\ [][ResetNext]_vars

(***************************************************************************)
(* The reader of a file: one submit_bytes call on the whole physical       *)
(* stream, then each returned page is given to the Stream of its serial    *)
(* number (or is lost on the way), and packets are taken out of the        *)
(* Streams at any time.  wire holds the pages the file was written from.   *)
(***************************************************************************)
MaxLost == 1

\* the logical stream 5: PageA, then a page on which a packet of 258 bytes
\* begins, then the page that completes it, then a last page of two packets
PageC == BuildPage(0, 3, 5, 1, <<2, 255>>, <<66, 67>> \o Run255)
PageD == BuildPage(1, 9, 5, 2, <<3, 1>>, <<1, 2, 3, 68>>)
PageE == BuildPage(4, 12, 5, 3, <<0, 4>>, <<69, 70, 71, 72>>)
\* a last page that completes the packet begun on PageC
PageF == BuildPage(5, 9, 5, 2, <<3>>, <<1, 2, 3>>)
\* a single first page of one segment of 10 bytes
PageT == BuildPage(2, 0, 5, 0, <<10>>, <<1, 2, 3, 4, 5, 6, 7, 8, 9, 10>>)
\* the logical stream -2
PageY0 == BuildPage(2, 0, -2, 0, <<2>>, <<1, 2>>)
PageY1 == BuildPage(4, 5, -2, 1, <<1, 1>>, <<3, 4>>)

\* every interleaving of two page sequences that keeps each in order
RECURSIVE Merges(_, _)
Merges(a, b) ==
    IF a = <<>> THEN {b}
    ELSE IF b = <<>> THEN {a}
    ELSE {<<Head(a)>> \o m : m \in Merges(Tail(a), b)}
             \cup {<<Head(b)>> \o m : m \in Merges(a, Tail(b))}

Files ==
    {<<PageA, PageC, PageD, PageE>>, <<PageA, PageC, PageF>>, <<PageT>>}
        \cup Merges(<<PageA, PageC, PageF>>, <<PageY0, PageY1>>)

RECURSIVE FileBytes(_)
FileBytes(pages) ==
    IF pages = <<>> THEN <<>> ELSE PageBytes(Head(pages)) \o FileBytes(Tail(pages))

FileInit == /\ aborted = FALSE
            /\ IdleHeader
            /\ wire \in Files
            /\ script = FileBytes(wire)
            /\ sync_state = ogg_sync_init
            /\ pos = 0
            /\ last = NoCall
            /\ calls = 0
            /\ consumed = 0
            /\ delivered = <<>>
            /\ twin = NoTwin
            /\ held = <<>>
            /\ seen = <<>>
            /\ run = NoRun
            /\ streams = [serial \in Serials |-> StreamNew(serial)]
            /\ fed = 0
            /\ sent = <<>>
            /\ got = <<>>
            /\ s_last = NoOp
            /\ accepted = [r \in Roles |-> FALSE]
            /\ tampered = FALSE
            /\ arrived = [serial \in Serials |-> <<>>]
            /\ outs = [serial \in Serials |-> <<>>]
            /\ given = <<>>

\* sync_state.submit_bytes(file)
SubmitFile == calls = 0 /\ Submit(Len(script))

\* Route with a fault: every page is given to the Stream of serial 5
RouteAny ==
    /\ ~aborted
    /\ fed < Len(delivered)
    /\ \E page \in {delivered[fed + 1].page} :
       \E r \in {Stream_page_in(streams[5], page)} :
          /\ streams' = [streams EXCEPT ![5] = r.s]
          /\ aborted' = (r.res = "Panic")
          /\ arrived' = IF r.res = "Ok"
                        THEN [arrived EXCEPT ![5] = Append(@, PageIndex(page))]
                        ELSE arrived
          /\ s_last' = Did("page_in", 5, r.res, <<page>>)
    /\ fed' = fed + 1
    /\ UNCHANGED <<headerVars, syncVars, wire, sent, got, accepted, tampered, outs,
                   given>>

\* streams[page.stream_serial()].page_in(&mut page) on the next returned page
Route ==
    /\ ~aborted
    /\ fed < Len(delivered)
    /\ \E page \in {delivered[fed + 1].page} :
       \E serial \in {stream_serial(page)} :
       \E r \in {Stream_page_in(streams[serial], page)} :
          /\ streams' = [streams EXCEPT ![serial] = r.s]
          /\ aborted' = (r.res = "Panic")
          /\ arrived' = IF r.res = "Ok"
                        THEN [arrived EXCEPT ![serial] = Append(@, PageIndex(page))]
                        ELSE arrived
          /\ s_last' = Did("page_in", serial, r.res, <<page>>)
    /\ fed' = fed + 1
    /\ UNCHANGED <<headerVars, syncVars, wire, sent, got, accepted, tampered, outs,
                   given>>

\* the next returned page never reaches its Stream
Drop ==
    /\ ~aborted
    /\ fed < Len(delivered)
    /\ fed - (Len(arrived[5]) + Len(arrived[-2])) < MaxLost
    /\ fed' = fed + 1
    /\ tampered' = TRUE
    /\ s_last' = Did("lose", "none", "none", <<>>)
    /\ UNCHANGED <<aborted, headerVars, syncVars, streams, wire, sent, got,
                   accepted, arrived, outs, given>>

\* streams[serial].packet_out().map(Packet::clone)
Extract(serial) ==
    /\ ~aborted
    /\ \E r \in {Stream_packet_out(streams[serial])} :
          /\ streams' = [streams EXCEPT ![serial] = r.s]
          /\ aborted' = (r.res = "Panic")
          /\ s_last' = Did("packet_out", serial, r.res,
                           IF r.res = "Ok" THEN <<Read(r.s.packet_buffer[1])>>
                           ELSE <<>>)
          /\ outs' = IF r.res \in {"Ok", "OutOfSync"}
                     THEN [outs EXCEPT ![serial] = Append(@, s_last')]
                     ELSE outs
    /\ UNCHANGED <<headerVars, syncVars, wire, fed, sent, got, accepted, tampered,
                   arrived, given>>

FileNext ==
    \/ SubmitFile
    \/ Route
    \/ Drop
    \/ \E serial \in Serials : Extract(serial)

SpecFile == FileInit /\ [][FileNext]_vars

(***************************************************************************)
(* The writer of a stream: it submits the packets of one of the Queues in  *)
(* order with packet_in, on the packet itself or on a clone of it, and     *)
(* takes pages out with any of the four page operations in between.        *)
(***************************************************************************)
\* the size limits the writer asks for
Limits == {1, 1000}

\* the packet queues, each packet by its length and its flags: short packets
\* with multiples of 255 among them, and a stream of one packet of 255 full
\* segments
Queues ==
    { <<<<1, TRUE, FALSE>>, <<255, FALSE, FALSE>>, <<0, FALSE, FALSE>>,
        <<510, FALSE, FALSE>>, <<1, FALSE, FALSE>>, <<2, FALSE, FALSE>>>>,
      <<<<255 * 255, TRUE, TRUE>>>> }

\* the packet of a queue entry
Sized(e) ==
    [data |-> [i \in 1..e[1] |-> i % 7], begins |-> e[2], ends |-> e[3],
     absgp |-> e[1]]

\* the next packet of the queue of `queues` the writer is working through
Upcoming(queues) ==
    {Sized(q[Len(sent) + 1]) :
        q \in {q \in queues :
                  /\ Len(sent) < Len(q)
                  /\ \A i \in 1..Len(sent) : Len(sent[i].data) = q[i][1]}}

\* stream.packet_in(&mut packet), on the packet itself or on a clone of it
QueueFrom(queues, cloned) ==
    /\ ~aborted
    /\ \E pk \in Upcoming(queues) :
       \E packet \in {IF cloned THEN PacketClone(BuildPacket(pk))
                      ELSE BuildPacket(pk)} :
       \E r \in {Stream_packet_in(streams["enc"], packet)} :
          /\ streams' = [streams EXCEPT !["enc"] = r.s]
          /\ sent' = Append(sent, pk)
          /\ given' = Append(given, packet.packet.bytes)
          /\ s_last' = Did("packet_in", "enc", r.res, <<>>)
    /\ UNCHANGED <<aborted, headerVars, syncVars, wire, fed, got, accepted, tampered,
                   arrived, outs>>

QueuePacket(cloned) == QueueFrom(Queues, cloned)

\* what the writer does with the result r of a page operation that was
\* given a size limit
TakeSized(op, limit, r) ==
    /\ streams' = [streams EXCEPT !["enc"] = r.s]
    /\ aborted' = (r.res = "Panic")
    /\ wire' = IF r.res = "Ok"
               THEN Append(wire, OwnedPage(r.s.page_buffer[1].header,
                                           r.s.page_buffer[1].body))
               ELSE wire
    /\ s_last' = [op |-> op, stream |-> "enc", res |-> r.res,
                  value |-> r.s.page_buffer, limit |-> limit]
    /\ UNCHANGED <<headerVars, syncVars, fed, sent, got, accepted, tampered,
                   arrived, outs, given>>

\* stream.page_out_with_max_size(limit).map(Page::clone)
PageOutWithMaxSize(limit) ==
    /\ ~aborted
    /\ \E r \in {Stream_page_out_with_max_size(streams["enc"], limit)} :
          TakeSized("page_out_with_max_size", limit, r)

\* stream.page_flush_with_max_size(limit).map(Page::clone)
PageFlushWithMaxSize(limit) ==
    /\ ~aborted
    /\ \E r \in {Stream_page_flush_with_max_size(streams["enc"], limit)} :
          TakeSized("page_flush_with_max_size", limit, r)

PagesNext ==
    \/ QueuePacket(TRUE)
    \/ QueuePacket(FALSE)
    \/ EncPageOut
    \/ EncPageFlush
    \/ \E limit \in Limits : PageOutWithMaxSize(limit)
    \/ \E limit \in Limits : PageFlushWithMaxSize(limit)

SpecPages == StreamInit /\ [][PagesNext]_vars

(***************************************************************************)
(* validate_header against the reference rule of the page format           *)
(***************************************************************************)
\* the reference rule: TooShort below 27 bytes, then the capture pattern,
\* then the version
ReferenceRule(header) ==
    IF Len(header) < 27 THEN <<"TooShort">>
    ELSE IF Slice(header, 0, 4) # CapturePattern THEN <<"NoMagicString">>
    ELSE IF header[5] # 0 THEN <<"BadVersion", header[5]>>
    ELSE <<"Ok">>

\* C10: validate_header agrees with the reference rule on every byte
\* sequence: TooShort exactly when there are fewer than 27 bytes, then
\* NoMagicString, then BadVersion(v), else Ok
C10_ValidateHeaderIsReferenceRule ==
    vh_result # <<"none">> => vh_result = ReferenceRule(vh_header)

\* C10, the input on which the code departs from the rule: a 27-byte header
\* with the capture pattern and version 0 has been refused as TooShort
C10_Refused27ByteHeader ==
    /\ Len(vh_header) = 27
    /\ ReferenceRule(vh_header) = <<"Ok">>
    /\ vh_result = <<"TooShort">>

(***************************************************************************)
(* Properties of submit_bytes                                              *)
(***************************************************************************)
\* the bytes libogg still holds unreturned
Buffered(oy) == Slice(oy.data, oy.returned, Fill(oy))

\* is there a complete frame at offset i of data, capture pattern first,
\* carrying the checksum of its bytes?
ValidFrameAt(data, i) ==
    /\ Len(data) - i >= 27
    /\ Slice(data, i, i + 4) = CapturePattern
    /\ Len(data) - i >= 27 + data[i + 27]
    /\ \E body_len \in {SumRange(data, i + 28, i + 27 + data[i + 27])} :
          /\ Len(data) - i >= 27 + data[i + 27] + body_len
          /\ \E header \in {Slice(data, i, i + 27 + data[i + 27])} :
                Slice(header, HEADER_CHECKSUM, HEADER_CHECKSUM + 4)
                    = Checksum(header, Slice(data, i + Len(header),
                                             i + Len(header) + body_len))

FrameLen(p) == Len(p.header) + Len(p.body)

\* the streams of C2: one valid page after N >= 1 garbage bytes
GarbageThenPage == {g \o PageBytes(PageA) : g \in Garbage}

\* C2: a fresh SyncState given garbage and then one valid page, in one
\* submission, returns the page from that submission and is synced again
C2_RecoversWithinTheSubmission ==
    (script \in GarbageThenPage /\ calls = 1 /\ pos = Len(script))
        => /\ last.pages = <<PageA>>
           /\ is_synced(sync_state)

\* C2, what happens instead: the submission returned Ok(None), the stream is
\* marked unsynced, and the page lies in the buffer
C2_PageLeftBehind ==
    /\ script \in GarbageThenPage /\ calls = 1 /\ pos = Len(script)
    /\ last.kind = "None"
    /\ ~is_synced(sync_state)
    /\ \E i \in 0..Len(Buffered(sync_state)) : ValidFrameAt(Buffered(sync_state), i)

\* C3: a valid page of L bytes submitted as its first k bytes and then the
\* other L - k, for every 0 <= k <= L: no page from the first call when k < L,
\* exactly the page once both calls are made, and no call fails
C3_SplitPageAtEveryOffset ==
    script = PageBytes(PageA)
        => /\ ~aborted
           /\ (calls = 1 /\ pos < Len(script)) => last.pages = <<>>
           /\ (calls = 2 /\ pos = Len(script))
                  => [i \in 1..Len(delivered) |-> delivered[i].page] = <<PageA>>

\* C3, the split offsets that fail: k = 0 and k = L have an empty piece
C3_EmptyPiecePanics ==
    /\ script = PageBytes(PageA)
    /\ aborted
    /\ last.arg = <<>>
    /\ pos \in {0, Len(script)}

\* C4: submit_bytes with an empty slice returns normally, returns no page and
\* leaves the buffered bytes and the synced flag as they were
C4_ZeroLengthSubmissionIsNoOp ==
    [][(calls' = calls + 1 /\ last'.arg = <<>>)
          => /\ ~aborted'
             /\ last'.pages = <<>>
             /\ Buffered(sync_state') = Buffered(sync_state)
             /\ is_synced(sync_state') = is_synced(sync_state)]_vars

\* C4, what happens instead: the call panicked
C4_ZeroLengthSubmissionPanicked ==
    /\ last.kind = "Panic"
    /\ last.arg = <<>>
    /\ aborted

\* C5: when a submit_bytes call returns, no complete checksum-valid page is
\* left unreturned in the buffered bytes
C5_NoCompletePageLeftBuffered ==
    (last.kind \in {"Some", "None"})
        => \A i \in 0..Len(Buffered(sync_state)) :
              ~ValidFrameAt(Buffered(sync_state), i)

\* C5, a case of it: a page that follows a damaged frame in the same
\* submission stays in the buffer when the call returns the page before it
C5_PageAfterCorruptionLeft ==
    /\ last.kind = "Some"
    /\ calls = 1
    /\ last.pages = <<PageA>>
    /\ \E i \in 0..Len(Buffered(sync_state)) :
          /\ ValidFrameAt(Buffered(sync_state), i)
          /\ SubSeq(Buffered(sync_state), i + 1, Len(Buffered(sync_state)))
                 = PageBytes(PageB)

\* C6: every page returned is a frame of the byte stream that starts with
\* the capture pattern and carries the checksum of its bytes; pages come in
\* stream order and none comes twice
C6_ReturnedPagesAreValidFramesInOrder ==
    /\ \A i \in 1..Len(delivered) :
          /\ Slice(script, delivered[i].off, delivered[i].off + FrameLen(delivered[i].page))
                 = PageBytes(delivered[i].page)
          /\ ValidFrameAt(script, delivered[i].off)
          /\ Len(delivered[i].page.header) = 27 + delivered[i].page.header[27]
    /\ \A i \in 1..(Len(delivered) - 1) :
          delivered[i].off + FrameLen(delivered[i].page) <= delivered[i + 1].off

\* C6, its case: a damaged frame lay between two pages; both pages were
\* returned and the damaged frame was not
C6_SkippedDamagedFrame ==
    /\ \E g \in Garbage \cup {<<>>} :
          script = g \o PageBytes(PageA) \o Corrupt(PageBytes(PageB))
                     \o PageBytes(PageB)
    /\ [i \in 1..Len(delivered) |-> delivered[i].page] = <<PageA, PageB>>
    /\ pos = Len(script)

(***************************************************************************)
(* Properties of Stream                                                    *)
(***************************************************************************)
\* the sender has got every submitted packet out in pages
EncDrained == Len(streams["enc"].stream_state.lacing_vals) = 0

\* the receiver has no complete packet left to take out
DecDrained ==
    streams["dec"].stream_state.lacing_packet
        <= streams["dec"].stream_state.lacing_returned

\* C1: packets given data, flags and granule position, submitted with
\* packet_in, drained with page_out / page_flush, fed in order with page_in
\* to a fresh Stream of the same serial and drained with packet_out come out
\* as the packets that went in: same data, flags and granule positions
C1_RoundTrip ==
    (~aborted /\ ~tampered /\ EncDrained /\ fed = Len(wire) /\ DecDrained)
        => got = sent

\* C1, what happens instead: a packet given one byte of data and submitted
\* comes out empty
C1_DataLost ==
    /\ ~tampered
    /\ Len(sent) = 1 /\ Len(got) = 1
    /\ sent[1].data = <<65>>
    /\ got[1].data = <<>>

\* C7: page_in returns WrongSerial exactly when the page's serial differs
\* from the Stream's, and then leaves the reassembly state and has_pages as
\* they were, so that the next packet_out does what it would have done
C7_WrongSerialExactlyAndNoChange ==
    [][(s_last'.op = "page_in" /\ s_last'.res # "Panic")
          => /\ (s_last'.res = "WrongSerial")
                    <=> (stream_serial(s_last'.value[1])
                             # streams["dec"].stream_state.serialno)
             /\ (s_last'.res = "WrongSerial")
                    => /\ streams'["dec"].stream_state = streams["dec"].stream_state
                       /\ streams'["dec"].has_pages = streams["dec"].has_pages
                       /\ Stream_packet_out(streams'["dec"])
                              = Stream_packet_out(streams["dec"])]_vars

\* C7, its case: a page of another serial was refused by a Stream that
\* holds a complete packet
C7_RefusedWhileHoldingPacket ==
    /\ s_last.op = "page_in"
    /\ s_last.res = "WrongSerial"
    /\ streams["dec"].has_pages
    /\ ~DecDrained

\* C8: packet_out and packet_peek fail with NoPages whenever page_in has
\* accepted no page since the Stream was created or last reset
C8_NoPagesUntilPageAccepted ==
    (s_last.op \in {"packet_out", "packet_peek"} /\ ~accepted[s_last.stream])
        => s_last.res = "NoPages"

\* C8, what happens instead: after packet_in alone, packet_out passes the
\* has_pages test and reports InternalError
C8_PacketInSetsHasPages ==
    /\ s_last.op = "packet_out"
    /\ s_last.stream = "enc"
    /\ ~accepted["enc"]
    /\ s_last.res = "InternalError"

\* C9: packet_peek returns what packet_out would return in the same state
\* and does not advance the Stream
C9_PeekIsPacketOutWithoutAdvance ==
    [][(s_last'.op = "packet_peek")
          => /\ streams'[s_last'.stream].stream_state
                    = streams[s_last'.stream].stream_state
             /\ s_last'.res = Stream_packet_out(streams[s_last'.stream]).res
             /\ (s_last'.res = "Ok")
                    => s_last'.value
                           = <<Read(Stream_packet_out(streams[s_last'.stream])
                                        .s.packet_buffer[1])>>]_vars

\* C9, the part that holds: a packet_peek that does not report OutOfSync
\* returns what packet_out would and leaves the Stream where it was
C9_PeekOfPacketDoesNotAdvance ==
    [][(s_last'.op = "packet_peek" /\ s_last'.res # "OutOfSync")
          => /\ streams'[s_last'.stream].stream_state
                    = streams[s_last'.stream].stream_state
             /\ s_last'.res = Stream_packet_out(streams[s_last'.stream]).res
             /\ (s_last'.res = "Ok")
                    => s_last'.value
                           = <<Read(Stream_packet_out(streams[s_last'.stream])
                                        .s.packet_buffer[1])>>]_vars

\* C9, where it fails: a packet_peek reported OutOfSync and, doing so, moved
\* past the mark of a gap in the page sequence
C9_PeekConsumedGap ==
    /\ s_last.op = "packet_peek"
    /\ s_last.res = "OutOfSync"
    /\ streams["dec"].stream_state.lacing_returned > 0
    /\ streams["dec"].stream_state.lacing_vals[
           streams["dec"].stream_state.lacing_returned] = 1024

(***************************************************************************)
(* The flag accessors against the bit layout of the header-type byte       *)
(***************************************************************************)
\* C11: for every header-type byte, continues_packet() is true exactly when
\* bit0 is set, begins_logical_stream() exactly when bit1 is set and
\* ends_logical_stream() exactly when bit2 is set, whatever the other bits
C11_FlagAccessorsReadTheirBit ==
    page_flags # <<>> =>
        page_flags = <<BitSet(vh_header[HEADER_TYPE + 1], 1),
                       BitSet(vh_header[HEADER_TYPE + 1], 2),
                       BitSet(vh_header[HEADER_TYPE + 1], 4)>>

\* a page of header type 5 (bit0 with bit2) for which continues_packet() and
\* ends_logical_stream() both returned false
C11_Type5ReadsAsNoFlag ==
    /\ vh_header # <<>>
    /\ vh_header[HEADER_TYPE + 1] = 5
    /\ page_flags = <<FALSE, FALSE, FALSE>>

(***************************************************************************)
(* Panics                                                                  *)
(***************************************************************************)
\* C12: no public operation aborts the process; every operation returns a
\* value or a typed error
C12_NoOperationAborts == aborted = FALSE

\* page_in on a freshly created Page panicked: Page::stream_serial slices
\* the empty header
C12_PageInOfNewPagePanicked ==
    /\ aborted
    /\ s_last.op = "page_in"
    /\ s_last.res = "Panic"
    /\ s_last.value = <<PageNew>>

(***************************************************************************)
(* The packets of a logical stream, read off its pages by the rules of the *)
(* page format: the segments of the pages in order, a packet ending with   *)
(* the first segment shorter than 255 bytes                                *)
(***************************************************************************)
\* the pages of the file that carry the serial number
Logical(serial) ==
    LET Mine(p) == stream_serial(p) = serial
    IN  SelectSeq(wire, Mine)

\* the segments of the pages, each with the sequence number of its page
RECURSIVE Segments(_)
Segments(pages) ==
    IF pages = <<>> THEN <<>>
    ELSE [j \in 1..Head(pages).header[HEADER_SEGMENTS + 1] |->
             [page |-> PageIndex(Head(pages)),
              nth |-> j,
              size |-> Head(pages).header[HEADER_SEGMENTS + 1 + j]]]
         \o Segments(Tail(pages))

RECURSIVE Bodies(_)
Bodies(pages) ==
    IF pages = <<>> THEN <<>> ELSE Head(pages).body \o Bodies(Tail(pages))

\* the packets of segments segs over the bytes body: the data, the
\* sequence numbers of the pages of the first and of the last segment,
\* whether the packet begins with the first segment of its first page,
\* whether it is the last packet completed on its last page, and whether it
\* ends with the last segment of that page
PacketsIn(segs, body) ==
    LET ends == {j \in 1..Len(segs) : segs[j].size < 255}
        nth(k) == CHOOSE e \in ends : Cardinality({x \in ends : x <= e}) = k
        start(k) == IF k = 1 THEN 1 ELSE nth(k - 1) + 1
        off(j) == SumRange([i \in 1..Len(segs) |-> segs[i].size], 1, j)
    IN  [k \in 1..Cardinality(ends) |->
            [data |-> Slice(body, off(start(k) - 1), off(nth(k))),
             first |-> segs[start(k)].page,
             last |-> segs[nth(k)].page,
             leads |-> segs[start(k)].nth = 1,
             lastdone |-> \A e \in ends : e > nth(k) => segs[e].page # segs[nth(k)].page,
             closes |-> nth(k) = Len(segs) \/ segs[nth(k) + 1].page # segs[nth(k)].page]]

PacketsOf(pages) ==
    Only({PacketsIn(segs, body) : segs \in {Segments(pages)}, body \in {Bodies(pages)}})

\* the sequence numbers of the pages fed to the Stream of the serial number
Fed(serial) == {arrived[serial][i] : i \in 1..Len(arrived[serial])}

\* is every page of the packet among those fed?
Whole(pk, serial) == \A n \in pk.first..pk.last : n \in Fed(serial)

\* was the packet begun on a page that was fed and continued on a page that
\* was skipped, with a page fed after the skipped one?
Broken(pk, serial) ==
    /\ pk.first \in Fed(serial)
    /\ \E n \in (pk.first + 1)..pk.last :
          /\ n \notin Fed(serial)
          /\ \E later \in Fed(serial) : later > n

\* the data of the packets packet_out has returned
Taken(serial) ==
    [i \in 1..Len(SelectSeq(outs[serial], LAMBDA o : o.res = "Ok")) |->
        SelectSeq(outs[serial], LAMBDA o : o.res = "Ok")[i].value[1].data]

IsPrefix(a, b) == Len(a) <= Len(b) /\ a = SubSeq(b, 1, Len(a))

\* every returned page has been fed or skipped and the Stream holds no
\* complete packet
Settled(serial) ==
    /\ calls = 1
    /\ ~aborted
    /\ fed = Len(delivered)
    /\ streams[serial].stream_state.lacing_packet
           <= streams[serial].stream_state.lacing_returned

\* packet_out returned OutOfSync after exactly n packets
OutOfSyncAfter(serial, n) ==
    \E j \in 1..Len(outs[serial]) :
        /\ outs[serial][j].res = "OutOfSync"
        /\ Cardinality({i \in 1..(j - 1) : outs[serial][i].res = "Ok"}) = n

\* C13: when pages are fed with a gap in the sequence numbers, packet_out
\* returns every packet whose pages were all fed, in order and with no
\* truncated or spliced packet among them, and returns OutOfSync where a
\* packet comes whose continuation was on the skipped page
C13_GapLosesOnlyTheBrokenPacket ==
    \A serial \in Serials :
        \E pks \in {PacketsOf(Logical(serial))} :
        \E whole \in {SelectSeq(pks, LAMBDA pk : Whole(pk, serial))} :
            /\ IsPrefix(Taken(serial), [i \in 1..Len(whole) |-> whole[i].data])
            /\ Settled(serial) =>
                  /\ Len(Taken(serial)) = Len(whole)
                  /\ \A k \in 1..Len(pks) :
                        Broken(pks[k], serial) =>
                            OutOfSyncAfter(serial,
                                Cardinality({i \in 1..(k - 1) : Whole(pks[i], serial)}))

\* the page that completes the 258-byte packet was skipped: packet_out
\* returned the two packets before it, then OutOfSync, then the two packets
\* of the last page
C13_BrokenPacketReported ==
    /\ wire = <<PageA, PageC, PageD, PageE>>
    /\ arrived[5] = <<0, 1, 3>>
    /\ Settled(5)
    /\ Len(outs[5]) = 5
    /\ outs[5][3].res = "OutOfSync"
    /\ outs[5][5].res = "Ok"
    /\ outs[5][5].value[1].data = <<69, 70, 71, 72>>

(***************************************************************************)
(* A Stream fed the pages of its logical stream alone                      *)
(***************************************************************************)
\* page_in on each page in order
RECURSIVE FeedAll(_, _)
FeedAll(s, pages) ==
    IF pages = <<>> THEN s
    ELSE Only({FeedAll(n, Tail(pages)) : n \in {Stream_page_in(s, Head(pages)).s}})

\* packet_out until need-more-data: the outcomes, each a result and the
\* packet read
RECURSIVE DrainAll(_, _)
DrainAll(s, acc) ==
    Only({IF r.res \in {"Ok", "OutOfSync"}
          THEN DrainAll(r.s, Append(acc,
                   [res |-> r.res,
                    value |-> IF r.res = "Ok" THEN <<Read(r.s.packet_buffer[1])>>
                              ELSE <<>>]))
          ELSE acc :
             r \in {Stream_packet_out(s)}})

Alone(serial) == DrainAll(FeedAll(StreamNew(serial), Logical(serial)), <<>>)

\* the outcomes of packet_out on the Stream of the serial number
Outcomes(serial) ==
    [i \in 1..Len(outs[serial]) |->
        [res |-> outs[serial][i].res, value |-> outs[serial][i].value]]

\* C14: with the pages of two logical streams interleaved in any order and
\* each returned page given to the Stream of its serial number, each Stream
\* returns what it returns when its pages are fed to it alone
C14_StreamsAreIsolated ==
    \A serial \in Serials :
        \E alone \in {Alone(serial)} :
            ~tampered =>
                /\ IsPrefix(Outcomes(serial), alone)
                /\ Settled(serial) => Outcomes(serial) = alone

\* a page of stream -2 came between the two pages of the 258-byte packet of
\* stream 5, and both Streams returned all their packets
C14_InterleavedAndDrained ==
    /\ wire = <<PageY0, PageA, PageC, PageY1, PageF>>
    /\ ~tampered
    /\ Settled(5)
    /\ Settled(-2)
    /\ Len(Taken(5)) = 3
    /\ Taken(5)[3] = Run255 \o <<1, 2, 3>>
    /\ Taken(-2) = <<<<1, 2>>, <<3>>, <<4>>>>

(***************************************************************************)
(* The tags of a returned packet                                           *)
(***************************************************************************)
\* the packets returned by packet_out, as read through the accessors
Packets(serial) ==
    [i \in 1..Len(SelectSeq(outs[serial], LAMBDA o : o.res = "Ok")) |->
        SelectSeq(outs[serial], LAMBDA o : o.res = "Ok")[i].value[1]]

\* the page of the logical stream with sequence number n
PageOf(serial, n) == Logical(serial)[n + 1]

\* Page::absgp of a page, as the i64 of the same bits
PageAbsgp(page) ==
    FromLeSigned(Slice(page.header, HEADER_GRANULE_POSITION,
                       HEADER_GRANULE_POSITION + 8))

WellFormed ==
    /\ Logical(5) = wire
    /\ \A i \in 1..Len(wire) :
          /\ BitSet(header_type(wire[i]), 2) <=> i = 1
          /\ BitSet(header_type(wire[i]), 4) <=> i = Len(wire)

\* C16: a well-formed file of one logical stream is submitted in one
\* submit_bytes call and the returned pages are given in order to a Stream
\* of its serial: every page_in succeeds, exactly one page
\* begins_logical_stream() and exactly one ends_logical_stream(), packet_out
\* never returns OutOfSync, returns no NoPages once the pages are in, and
\* returns need-more-data (InternalError) once the packets are out
C16_WellFormedFileDrains ==
    (WellFormed /\ calls = 1 /\ ~tampered) =>
        /\ ~aborted
        /\ Len(delivered) = Len(wire)
        /\ Cardinality({i \in 1..Len(delivered) :
                            begins_logical_stream(delivered[i].page)}) = 1
        /\ Cardinality({i \in 1..Len(delivered) :
                            ends_logical_stream(delivered[i].page)}) = 1
        /\ arrived[5] = [i \in 1..fed |-> i - 1]
        /\ \A j \in 1..Len(outs[5]) : outs[5][j].res = "Ok"
        /\ fed = Len(delivered) =>
              Stream_packet_out(streams[5]).res \in {"Ok", "InternalError"}
        /\ Settled(5) =>
              /\ Stream_packet_out(streams[5]).res = "InternalError"
              /\ Len(outs[5]) = Len(PacketsOf(wire))

\* the last page of a well-formed file continues a packet (header type 5):
\* every page went in and every packet came out, but no returned page
\* ends_logical_stream()
C16_NoLastPageFound ==
    /\ WellFormed
    /\ ~tampered
    /\ Settled(5)
    /\ Len(outs[5]) = Len(PacketsOf(wire))
    /\ header_type(delivered[Len(delivered)].page) = 5
    /\ \A i \in 1..Len(delivered) : ~ends_logical_stream(delivered[i].page)

(***************************************************************************)
(* Stream::reset                                                           *)
(***************************************************************************)
\* the Stream was reset and has neither accepted nor produced a page since:
\* only ogg_stream_reset sets pageno to -1
JustReset(role) ==
    /\ streams[role].stream_state.pageno = -1
    /\ ~accepted[role]

\* a Stream as reset leaves it: a new Stream of the same serial, but for
\* the page number it expects
AsReset(s) ==
    [StreamNew(s.stream_state.serialno) EXCEPT !.stream_state.pageno = -1]

\* C17: reset discards all buffered page and packet state and keeps the
\* serial; from then until the next accepted page packet_out and
\* packet_peek return NoPages, and page_in accepts exactly the pages of the
\* original serial
C17_ResetReturnsToNoPagesYet ==
    [][/\ s_last'.op = "reset" => streams'[s_last'.stream] = AsReset(streams[s_last'.stream])
       /\ \A role \in Roles :
             JustReset(role)' =>
                 /\ Stream_packet_out(streams'[role]).res = "NoPages"
                 /\ Stream_packet_peek(streams'[role]).res = "NoPages"
                 /\ \A serial \in Serials :
                       (Stream_page_in(streams'[role], WithSerial(PageA, serial)).res
                            = "WrongSerial")
                           <=> serial # Least(Serials)]_vars

\* after a reset the sender submitted a packet, and packet_out returned
\* InternalError although no page has been accepted since the reset
C17_PacketInAfterResetHidesNoPages ==
    /\ JustReset("enc")
    /\ s_last.op = "packet_out"
    /\ s_last.stream = "enc"
    /\ s_last.res = "InternalError"

(***************************************************************************)
(* SyncState::reset                                                        *)
(***************************************************************************)
\* C18: reset discards all buffered bytes, and after it the SyncState
\* behaves on every later submission as a freshly created SyncState does:
\* each submit_bytes returns what the twin returns, and is_synced() reports
\* what the twin reports
C18_ResetIsAsNew ==
    /\ last.kind = twin.kind
    /\ last.pages = twin.pages
    /\ is_synced(sync_state) = is_synced(twin.oy)
    /\ last = NoCall => Buffered(sync_state) = <<>>

\* the first part of a page was submitted, the SyncState was reset, and the
\* rest of the page was submitted: no page was returned
C18_SplitPageNotCompletedAcrossReset ==
    /\ script = PageBytes(PageA)
    /\ pos = Len(script)
    /\ calls = 2
    /\ ~aborted
    /\ last.kind = "None"
    /\ Len(last.arg) > 0
    /\ delivered = <<>>


(***************************************************************************)
(* The pages a Stream returns                                              *)
(***************************************************************************)
\* the lacing entries of a packet of n bytes: 255 for every full segment,
\* then the rest, which is 0 when n is a multiple of 255
RefLacing(n) ==
    [i \in 1..(n \div 255 + 1) |-> IF i <= n \div 255 THEN 255 ELSE n % 255]

RECURSIVE AllLacing(_)
AllLacing(lengths) ==
    IF lengths = <<>> THEN <<>>
    ELSE RefLacing(Head(lengths)) \o AllLacing(Tail(lengths))

\* the lacing entries of the returned pages, in order
WireLacing ==
    Only({[j \in 1..Len(segs) |-> segs[j].size] : segs \in {Segments(wire)}})

\* header and body of a page agree with its count of lacing entries
Framed(page) ==
    /\ Len(page.header) > HEADER_SEGMENTS
    /\ page.header[HEADER_SEGMENTS + 1] <= 255
    /\ Len(page.header) = 27 + page.header[HEADER_SEGMENTS + 1]
    /\ Len(page.body) = SumRange(page.header, 28, Len(page.header))

PageOps == {"page_out", "page_flush", "page_out_with_max_size",
            "page_flush_with_max_size"}

\* C19: every page returned by page_out, page_out_with_max_size, page_flush
\* or page_flush_with_max_size has at most 255 lacing entries, a header of
\* 27 bytes plus one per lacing entry and a body as long as the sum of the
\* lacing values; and the lacing entries of the returned pages are, packet
\* after packet in the order libogg was handed them, 255 for every full
\* segment of the packet and then one entry below 255, which is 0 for a
\* packet whose length is a multiple of 255.
C19_ReturnedPagesAreWellFormed ==
    /\ s_last.op \in PageOps /\ s_last.res = "Ok" =>
          /\ wire # <<>>
          /\ s_last.value = <<wire[Len(wire)]>>
    /\ \A i \in 1..Len(wire) : Framed(wire[i])
    /\ IsPrefix(WireLacing, AllLacing(given))

\* C19, its case: a packet of 255 bytes has come out of
\* page_flush_with_max_size on a page with the entries 255 and 0
C19_FullSegmentThenClosingEntry ==
    /\ s_last.op = "page_flush_with_max_size"
    /\ s_last.res = "Ok"
    /\ given = <<1, 255>>
    /\ Len(wire) = 2
    /\ Slice(wire[2].header, 27, Len(wire[2].header)) = <<255, 0>>
    /\ Len(wire[2].body) = 255


\* the size in bytes of a page, header and body
PageSize(page) == Len(page.header) + Len(page.body)

SizedOps == {"page_out_with_max_size", "page_flush_with_max_size"}

\* C20: for every limit >= 1 and every queue of packets, a page returned by
\* page_out_with_max_size(limit) or page_flush_with_max_size(limit) is, header
\* and body together, at most limit bytes long (a packet that does not fit
\* going on to the following pages).
C20_SizedPageFitsTheLimit ==
    s_last.op \in SizedOps /\ s_last.res = "Ok" =>
        PageSize(s_last.value[1]) <= s_last.limit

\* C20, what happens instead: page_flush_with_max_size(1) has returned a
\* page of 29 bytes that holds a whole packet of one byte
C20_PageLargerThanLimit ==
    /\ s_last.op = "page_flush_with_max_size"
    /\ s_last.res = "Ok"
    /\ s_last.limit = 1
    /\ given = <<1>>
    /\ PageSize(s_last.value[1]) = 29
    /\ s_last.value[1].body = <<1>>


(***************************************************************************)
(* The writer that flushes: packet_in on the packets of a queue, page_out  *)
(* and page_flush at any time, and page_flush called again whenever it can *)
(* still tell the writer something.                                       *)
(***************************************************************************)
\* a queue of four packets: one byte, 255 bytes, none, and two bytes
ShortQueues ==
    { <<<<1, TRUE, FALSE>>, <<255, FALSE, FALSE>>, <<0, FALSE, FALSE>>,
        <<2, FALSE, FALSE>>>> }

FlushNext ==
    \/ QueueFrom(ShortQueues, TRUE)
    \/ QueueFrom(ShortQueues, FALSE)
    \/ EncPageOut
    \/ EncPageFlush

SpecFlush == StreamInit /\ [][FlushNext]_vars /\ WF_vars(EncPageFlush)

\* the bytes libogg was handed, packet after packet
RECURSIVE GivenBytes(_)
GivenBytes(lengths) ==
    IF lengths = <<>> THEN <<>>
    ELSE [i \in 1..Head(lengths) |-> i % 7] \o GivenBytes(Tail(lengths))

\* a packet handed to libogg has entries that are on no returned page yet
Undrained == Len(WireLacing) < Len(AllLacing(given))

\* page_flush has just returned the error outcome and every packet handed
\* over so far is on the returned pages, byte for byte
FlushedOut ==
    /\ s_last.op = "page_flush"
    /\ s_last.res = "InternalError"
    /\ WireLacing = AllLacing(given)
    /\ Bodies(wire) = GivenBytes(given)

\* C21: page_flush returns a page whenever something submitted with
\* packet_in is not yet on a returned page, and the error outcome exactly
\* when nothing is queued; the bodies of the returned pages are at any time
\* the first bytes of the submitted packets, each once and in order; and
\* while something is queued, repeating page_flush leads to the state where
\* it has returned the error outcome and every byte is on the pages.
C21_FlushEmitsEverythingOnce ==
    /\ [][s_last'.op = "page_flush" =>
             (s_last'.res = "Ok" <=> Undrained)]_vars
    /\ [](IsPrefix(Bodies(wire), GivenBytes(given)))
    /\ (Undrained ~> FlushedOut)

\* C21, its case: the four packets have come out on pages and page_flush
\* has then returned the error outcome
C21_FlushedFourPackets ==
    /\ FlushedOut
    /\ given = <<1, 255, 0, 2>>
    /\ Len(wire) >= 2


(***************************************************************************)
(* The sender and the receiver, each of which may ask its Stream whether   *)
(* the stream has ended; the receiver may reset its Stream.                *)
(***************************************************************************)
\* end_of_stream on a stream
EndOfStream(role) ==
    /\ ~aborted
    /\ \E r \in {Stream_end_of_stream(streams[role])} :
          /\ streams' = [streams EXCEPT ![role] = r.s]
          /\ s_last' = Did("end_of_stream", role,
                           IF r.res THEN "true" ELSE "false", <<>>)
    /\ UNCHANGED <<aborted, headerVars, syncVars, wire, fed, sent, got, accepted,
                   tampered, arrived, outs, given>>

EndNext ==
    \/ \E pk \in PacketPool : EncPacketIn(pk, TRUE)
    \/ EncPageOut
    \/ EncPageFlush
    \/ \E serial \in Serials : DecPageIn(serial)
    \/ PacketOut("dec")
    \/ Reset("dec")
    \/ \E role \in Roles : EndOfStream(role)

SpecEnd == StreamInit /\ [][EndNext]_vars

\* what end_of_stream would return on the stream
Ended(role) == Stream_end_of_stream(streams[role]).res

\* the stream holds no complete packet
Drained(role) ==
    streams[role].stream_state.lacing_packet
        <= streams[role].stream_state.lacing_returned

\* the latest operation was on the stream and returned Ok
JustDid(op, role) ==
    s_last.op = op /\ s_last.stream = role /\ s_last.res = "Ok"

\* the latest operation was a reset of the stream
JustResetOf(role) == s_last.op = "reset" /\ s_last.stream = role

MaxHeld == 3

\* what a pointer into the buffer reads now; a place the buffer no longer
\* covers reads as -1, which is no byte
Mem(mem, lo, hi) ==
    [i \in 1..(hi - lo) |-> IF lo + i <= Len(mem) THEN mem[lo + i] ELSE -1]

\* Page::header
Page_header(mem, page) ==
    IF "at" \in DOMAIN page THEN Mem(mem, page.at, page.at + page.header_len)
    ELSE page.header

\* Page::data
Page_data(mem, page) ==
    IF "at" \in DOMAIN page
    THEN Mem(mem, page.at + page.header_len,
             page.at + page.header_len + page.body_len)
    ELSE page.body

\* impl Clone for Page
Page_clone(mem, page) ==
    IF "at" \in DOMAIN page THEN PageClone(mem, page)
    ELSE OwnedPage(page.header, page.body)

\* Page::set_data: a page owned by libogg panics
Page_set_data(page, bytes) ==
    IF "at" \in DOMAIN page THEN [panic |-> TRUE, page |-> page]
    ELSE [panic |-> FALSE, page |-> [page EXCEPT !.body = bytes]]

\* what the caller reads from a Page
ReadPage(mem, page) ==
    [header |-> Page_header(mem, page), data |-> Page_data(mem, page)]

\* what the caller reads now from the i-th value it holds
ReadHeld(i) ==
    IF held[i].kind = "page" THEN ReadPage(sync_state.data, held[i].v)
    ELSE Read(held[i].v)

\* the stream the caller reads from: two pages
KeepInit == /\ SyncInit
            /\ script = PageBytes(PageA) \o PageBytes(PageB)

\* the pieces: up to the end of the first page, one byte, or the rest
KeepChunks == {Len(PageBytes(PageA)) - pos, 1, Len(script) - pos}

\* sync_state.submit_bytes(piece); the caller keeps the returned pages
KeepSubmit(k) ==
    /\ ~aborted
    /\ calls < MaxCalls
    /\ k > 0
    /\ pos + k <= Len(script)
    /\ \E bytes \in {SubSeq(script, pos + 1, pos + k)} :
       \E r \in {submit_bytes(sync_state, bytes)} :
       \E base \in {IF r.kind = "Panic" THEN consumed
                    ELSE consumed + sync_state.returned} :
           /\ sync_state' = r.oy
           /\ aborted' = (r.kind = "Panic")
           /\ consumed' = base
           /\ last' = [arg |-> bytes, kind |-> r.kind,
                       pages |-> [i \in 1..Len(r.pages) |-> r.pages[i].page]]
           /\ delivered' = delivered \o
                  [i \in 1..Len(r.pages) |->
                      [off |-> base + r.pages[i].at, page |-> r.pages[i].page]]
           /\ held' = held \o
                  [i \in 1..Len(r.pages) |-> [kind |-> "page", v |-> r.pages[i].page]]
           /\ seen' = seen \o
                  [i \in 1..Len(r.pages) |-> ReadPage(r.oy.data, r.pages[i].page)]
    /\ pos' = pos + k
    /\ calls' = calls + 1
    /\ UNCHANGED <<script, twin, run, headerVars, streamVars>>

\* Packet::new and the setters; the caller keeps the packet
KeepPacket(pk) ==
    /\ ~aborted
    /\ Len(held) < MaxHeld
    /\ held' = Append(held, [kind |-> "packet", v |-> BuildPacket(pk)])
    /\ seen' = Append(seen, [data |-> pk.data, begins |-> pk.begins,
                             ends |-> pk.ends, absgp |-> pk.absgp, index |-> 0])
    /\ UNCHANGED <<aborted, sync_state, script, pos, last, calls, consumed, delivered,
                   twin, run, headerVars, streamVars>>

\* held[i].clone(); the caller keeps the clone, which is to read as the
\* original does
KeepClone(i) ==
    /\ ~aborted
    /\ Len(held) < MaxHeld
    /\ held' = Append(held,
                  [kind |-> held[i].kind,
                   v |-> IF held[i].kind = "page"
                         THEN Page_clone(sync_state.data, held[i].v)
                         ELSE PacketClone(held[i].v)])
    /\ seen' = Append(seen, seen[i])
    /\ UNCHANGED <<aborted, sync_state, script, pos, last, calls, consumed, delivered,
                   twin, run, headerVars, streamVars>>

\* held[i].set_data(bytes), on a Page or on a Packet
KeepSetData(i, bytes) ==
    /\ ~aborted
    /\ seen[i].data # bytes
    /\ IF held[i].kind = "page"
       THEN \E r \in {Page_set_data(held[i].v, bytes)} :
               /\ aborted' = r.panic
               /\ held' = [held EXCEPT ![i].v = r.page]
       ELSE /\ aborted' = FALSE
            /\ held' = [held EXCEPT ![i].v = set_data(@, bytes)]
    /\ seen' = [seen EXCEPT ![i].data = bytes]
    /\ UNCHANGED <<sync_state, script, pos, last, calls, consumed, delivered,
                   twin, run, headerVars, streamVars>>

KeepNext ==
    \/ \E k \in KeepChunks : KeepSubmit(k)
    \/ SyncReset
    \/ KeepPacket(FirstPacket)
    \/ \E i \in 1..Len(held) : KeepClone(i)
    \/ \E i \in 1..Len(held) : KeepSetData(i, <<9>>)

SpecKeep == KeepInit /\ [][KeepNext]_vars

\* C23: what the caller reads from a page returned by submit_bytes is what
\* it read when the page was returned, whatever submit_bytes and reset have
\* done to the SyncState since; a clone of a Page or of a Packet reads as
\* its original did when it was cloned (header and data, and so the flags,
\* the granule position and the index); and what is read from a value
\* changes only with a set_data on that value, not on its original or its
\* clone.
C23_HeldValuesAreTheCallers ==
    /\ Len(seen) = Len(held)
    /\ \A i \in 1..Len(held) : ReadHeld(i) = seen[i]

\* C23, its case: the first page was returned, cloned, and then given other
\* data; the SyncState has since returned another page and been reset
C23_CloneOutlivesResetAndMutation ==
    /\ Len(held) = 3
    /\ held[1].kind = "page" /\ held[2].kind = "page" /\ held[3].kind = "page"
    /\ seen[1].data = <<9>>
    /\ seen[2] = ReadPage(<<>>, PageA)
    /\ seen[3] = ReadPage(<<>>, PageB)
    /\ calls >= 2
    /\ last = NoCall


(***************************************************************************)
(* submit_bytes step by step.  A step is one turn of the loop of libogg's  *)
(* ogg_sync_pageout (one ogg_sync_pageseek) and what page_out and          *)
(* submit_bytes do with its outcome.  run.pc is "first" before the first   *)
(* page_out has returned, "loop" inside the loop, "done" after the return. *)
(* When Page::try_from refuses a page, run.refused is that ogg_page and    *)
(* run.dropped the pages the Vec `collected` held when it was dropped.     *)
(***************************************************************************)
\* many false capture patterns, then a page
FalseCaptures == [i \in 1..30 |-> IF i % 5 = 0 THEN 7 ELSE CapturePattern[i % 5]]

LoopScripts ==
    { FalseCaptures \o PageBytes(PageA),
      [i \in 1..30 |-> 79] \o PageBytes(PageA),
      Corrupt(PageBytes(PageA)) \o Corrupt(PageBytes(PageB)) \o PageBytes(PageB),
      PageBytes(PageB) \o PageBytes(PageZ) \o PageBytes(PageA) }

LoopInit == /\ aborted = FALSE
            /\ IdleHeader
            /\ sync_state = ogg_sync_init
            /\ script \in LoopScripts
            /\ pos = 0
            /\ last = NoCall
            /\ calls = 0
            /\ consumed = 0
            /\ delivered = <<>>
            /\ twin = NoTwin
            /\ held = <<>>
            /\ seen = <<>>
            /\ run = NoRun
            /\ IdleStream

\* the pieces: nothing, one byte, 29 bytes, or the rest
LoopChunks == {0, 1, 29, Len(script) - pos}

Running == run.pc \in {"first", "loop"}

\* the call of submit_bytes(piece), up to the first page_out
LoopCall(k) ==
    /\ ~aborted
    /\ ~Running
    /\ calls < MaxCalls
    /\ pos + k <= Len(script)
    /\ \E bytes \in {SubSeq(script, pos + 1, pos + k)} :
       \E w \in {write(sync_state, bytes)} :
           /\ aborted' = w.panic
           /\ sync_state' = w.oy
           /\ run' = [pc |-> IF w.panic THEN "done" ELSE "first",
                      collected |-> <<>>,
                      kind |-> IF w.panic THEN "Panic" ELSE "NoCall",
                      from |-> sync_state, arg |-> bytes,
                      dropped |-> <<>>, refused |-> NoPage]
    /\ pos' = pos + k
    /\ calls' = calls + 1
    /\ UNCHANGED <<script, last, consumed, delivered, twin, held, seen, headerVars,
                   streamVars>>

\* the return of submit_bytes when page_out returned an error: Ok(None)
\* from the first page_out, Ok(Some(collected)) from the loop
Stopped(oy) ==
    /\ sync_state' = oy
    /\ run' = [run EXCEPT !.pc = "done",
                          !.kind = IF run.pc = "first" THEN "None" ELSE "Some"]

\* LoopSeek with a fault: the loop goes on when page_out returned an error
LoopSeekNoBreak ==
    /\ Running
    /\ \E r \in {ogg_sync_pageseek(sync_state)} :
          IF r[2] > 0
          THEN /\ sync_state' = r[1]
               /\ IF PageTryFrom(r[1].data, r[3]) # <<"Ok">>
                  THEN run' = [run EXCEPT !.pc = "done", !.kind = "InvalidPage",
                                          !.collected = <<>>,
                                          !.dropped = run.collected,
                                          !.refused = r[3]]
                  ELSE run' = [run EXCEPT !.pc = "loop",
                                          !.collected =
                                              Pushed(@, [oy |-> r[1], page |-> r[3]])]
          ELSE /\ sync_state' = [r[1] EXCEPT !.unsynced = IF r[2] < 0 THEN 1 ELSE @]
               /\ run' = [run EXCEPT !.pc = "loop"]
    /\ UNCHANGED <<aborted, script, pos, last, calls, consumed, delivered, twin, held,
                   seen, headerVars, streamVars>>

\* one ogg_sync_pageseek of the call in progress
LoopSeek ==
    /\ Running
    /\ \E r \in {ogg_sync_pageseek(sync_state)} :
          IF r[2] > 0
          THEN /\ sync_state' = r[1]
               /\ IF PageTryFrom(r[1].data, r[3]) # <<"Ok">>
                  THEN run' = [run EXCEPT !.pc = "done", !.kind = "InvalidPage",
                                          !.collected = <<>>,
                                          !.dropped = run.collected,
                                          !.refused = r[3]]
                  ELSE run' = [run EXCEPT !.pc = "loop",
                                          !.collected =
                                              Pushed(@, [oy |-> r[1], page |-> r[3]])]
          ELSE IF r[2] = 0 THEN Stopped(r[1])
          ELSE IF r[1].unsynced = 0 THEN Stopped([r[1] EXCEPT !.unsynced = 1])
          ELSE /\ sync_state' = r[1]
               /\ run' = run
    /\ UNCHANGED <<aborted, script, pos, last, calls, consumed, delivered, twin, held,
                   seen, headerVars, streamVars>>

LoopNext == (\E k \in LoopChunks : LoopCall(k)) \/ LoopSeek

\* the call in progress goes on: the code is sequential
SpecLoop == LoopInit /\ [][LoopNext]_vars /\ WF_vars(LoopSeek)

\* the bytes ogg_sync_pageseek has still to look at
Left == Fill(sync_state) - sync_state.returned

\* C24: a call of submit_bytes returns (or panics, on an empty slice): every
\* step that does not end the call, whether it returns a page or skips a
\* false capture pattern or a frame with a wrong checksum, leaves fewer
\* bytes to look at, and the call ends with the result of submit_bytes.
C24_SubmitBytesTerminates ==
    /\ [][Running /\ Running' /\ run'.from = run.from => Left' < Left]_vars
    /\ [](run.pc = "done" /\ run.kind # "Panic"
            => [oy |-> sync_state, kind |-> run.kind, pages |-> run.collected]
                   = submit_bytes(run.from, run.arg))
    /\ (Running ~> run.pc = "done")

\* C24, its case: a call that began out of sync with false capture patterns
\* ahead, skipped at least 20 bytes of them, and returned a page
C24_ReturnedAfterFalseCaptures ==
    /\ run.pc = "done"
    /\ run.kind = "Some"
    /\ run.from.unsynced = 1
    /\ Fill(run.from) - run.from.returned >= 20
    /\ Len(run.collected) = 1
    /\ run.collected[1].at >= 20


(***************************************************************************)
(* A Packet made with Packet::new, changed with the setters in any order,  *)
(* and submitted with packet_in, as it is or as a clone.  held[1] is the   *)
(* Packet; s_last holds the raw ogg_packet that libogg was handed.         *)
(***************************************************************************)
SetData == {<<>>, <<65>>}
SetAbsgp == {0, 7}
SetIndex == {0, 3}

\* the operation `op` on the Packet, which becomes `packet`
HandSet(op, packet) ==
    /\ ~aborted
    /\ Len(held) = 1
    /\ packet # held[1].v
    /\ held' = <<[kind |-> "packet", v |-> packet]>>
    /\ s_last' = Did(op, "none", "Ok", <<>>)
    /\ UNCHANGED <<aborted, sync_state, script, pos, last, calls, consumed, delivered,
                   twin, seen, run, headerVars, streams, wire, fed, sent, got,
                   accepted, tampered, arrived, outs, given>>

\* Packet::new
HandNew ==
    /\ ~aborted
    /\ held' = <<[kind |-> "packet", v |-> PacketNew]>>
    /\ s_last' = Did("new", "none", "Ok", <<>>)
    /\ UNCHANGED <<aborted, sync_state, script, pos, last, calls, consumed, delivered,
                   twin, seen, run, headerVars, streams, wire, fed, sent, got,
                   accepted, tampered, arrived, outs, given>>

\* enc.packet_in(&mut packet), or enc.packet_in(&mut packet.clone())
HandPacketIn(cloned) ==
    /\ ~aborted
    /\ Len(held) = 1
    /\ Len(sent) < MaxPackets
    /\ \E packet \in {IF cloned THEN PacketClone(held[1].v) ELSE held[1].v} :
       \E r \in {Stream_packet_in(streams["enc"], packet)} :
          /\ streams' = [streams EXCEPT !["enc"] = r.s]
          /\ sent' = Append(sent, Observed(held[1].v))
          /\ given' = Append(given, packet.packet.bytes)
          /\ s_last' = Did(IF cloned THEN "packet_in of clone" ELSE "packet_in",
                           "enc", r.res, <<packet.packet>>)
    /\ UNCHANGED <<aborted, headerVars, syncVars, wire, fed, got, accepted, tampered,
                   arrived, outs>>

HandNext ==
    \/ HandNew
    \/ \E data \in SetData : HandSet("set_data", set_data(held[1].v, data))
    \/ \E b \in BOOLEAN :
          HandSet("set_begins_local_stream", set_begins_local_stream(held[1].v, b))
    \/ \E b \in BOOLEAN :
          HandSet("set_ends_local_stream", set_ends_local_stream(held[1].v, b))
    \/ \E absgp \in SetAbsgp : HandSet("set_absgp", set_absgp(held[1].v, absgp))
    \/ \E index \in SetIndex : HandSet("set_index", set_index(held[1].v, index))
    \/ HandPacketIn(FALSE)
    \/ HandPacketIn(TRUE)

SpecHand == StreamInit /\ [][HandNext]_vars

\* a raw ogg_packet as libogg reads it
Handed(op) ==
    [data |-> SubSeq(op.packet, 1, op.bytes), begins |-> op.b_o_s # 0,
     ends |-> op.e_o_s # 0, absgp |-> op.granulepos, index |-> op.packetno]

\* C25: when packet_in has just been called on the Packet, the data, flags,
\* granule position and index libogg was handed are those the accessors of
\* the Packet report.
C25_PacketInHandsWhatAccessorsReport ==
    s_last.op = "packet_in" => Handed(s_last.value[1]) = Read(held[1].v)

\* C25, its case: every setter was used, packet_in returned Ok, and libogg
\* was handed an empty packet with no flag, granule position 0 and index 0
C25_HandedTheEmptyPacket ==
    /\ s_last.op = "packet_in"
    /\ s_last.res = "Ok"
    /\ Read(held[1].v) = [data |-> <<65>>, begins |-> TRUE, ends |-> TRUE,
                          absgp |-> 7, index |-> 3]
    /\ Handed(s_last.value[1]) = Read(PacketNew)


(***************************************************************************)
(* has_pages.  Every operation of a Stream, on the sender's and on the     *)
(* receiver's; page_in is also given pages of another serial number and    *)
(* pages of another stream structure version, which it refuses.            *)
(***************************************************************************)
\* Page::header_mut, used to write another version into the header
WithVersion(page, version) ==
    [page EXCEPT !.header[HEADER_VERSION + 1] = version]

\* dec.page_in(&mut page) on the next page of the wire with version 1
\* written into its header
DecPageInVersion ==
    /\ ~aborted
    /\ fed < Len(wire)
    /\ \E page \in {WithVersion(wire[fed + 1], 1)} :
       \E r \in {Stream_page_in(streams["dec"], page)} :
          /\ streams' = [streams EXCEPT !["dec"] = r.s]
          /\ aborted' = (r.res = "Panic")
          /\ accepted' = [accepted EXCEPT !["dec"] = @ \/ r.res = "Ok"]
          /\ s_last' = Did("page_in", "dec", r.res, <<page>>)
    /\ tampered' = TRUE
    /\ fed' = fed + 1
    /\ UNCHANGED <<headerVars, syncVars, wire, sent, got, arrived, outs, given>>

HasNext ==
    \/ EncPacketIn(FirstPacket, TRUE)
    \/ EncPacketIn(FirstPacket, FALSE)
    \/ EncPageOut
    \/ EncPageFlush
    \/ \E serial \in Serials : DecPageIn(serial)
    \/ DecPageInVersion
    \/ \E role \in Roles : PacketOut(role)
    \/ \E role \in Roles : PacketPeek(role)
    \/ \E role \in Roles : EndOfStream(role)
    \/ \E role \in Roles : Reset(role)

SpecHas == StreamInit /\ [][HasNext]_vars

HasPages(role) == streams[role].has_pages

Page_set_header(page, header) ==
    IF "at" \in DOMAIN page THEN [panic |-> TRUE, res |-> <<"Panic">>, page |-> page]
    ELSE IF validate_header(header) # <<"Ok">>
         THEN [panic |-> FALSE, res |-> validate_header(header), page |-> page]
    ELSE [panic |-> FALSE, res |-> <<"Ok">>, page |-> [page EXCEPT !.header = header]]

\* page.header_mut()[at] = byte, at counted from 0: a page owned by libogg
\* panics, and so does an index past the end of the header
Page_header_mut(page, at, byte) ==
    IF "at" \in DOMAIN page \/ at >= Len(page.header)
    THEN [panic |-> TRUE, page |-> page]
    ELSE [panic |-> FALSE, page |-> [page EXCEPT !.header[at + 1] = byte]]

\* the headers given to set_header: none, one of a page of no segments, a
\* valid one, one of another version
SetHeaders ==
    {<<>>, PageZ.header, PageB.header, WithVersion(PageA, 1).header}

\* Page::new; the caller keeps the page
ValidPageNew ==
    /\ ~aborted
    /\ Len(held) < MaxHeld
    /\ held' = Append(held, [kind |-> "page", v |-> PageNew])
    /\ seen' = Append(seen, ReadPage(sync_state.data, PageNew))
    /\ UNCHANGED <<aborted, sync_state, script, pos, last, calls, consumed, delivered,
                   twin, run, headerVars, streamVars>>

\* held[i].set_header(header)
ValidSetHeader(i, header) ==
    /\ ~aborted
    /\ held[i].kind = "page"
    /\ \E r \in {Page_set_header(held[i].v, header)} :
          /\ aborted' = r.panic
          /\ held' = [held EXCEPT ![i].v = r.page]
          /\ seen' = [seen EXCEPT ![i] = ReadPage(sync_state.data, r.page)]
    /\ UNCHANGED <<sync_state, script, pos, last, calls, consumed, delivered,
                   twin, run, headerVars, streamVars>>

\* held[i].header_mut()[at] = byte
ValidHeaderMut(i, at, byte) ==
    /\ ~aborted
    /\ held[i].kind = "page"
    /\ \E r \in {Page_header_mut(held[i].v, at, byte)} :
          /\ aborted' = r.panic
          /\ held' = [held EXCEPT ![i].v = r.page]
          /\ seen' = [seen EXCEPT ![i] = ReadPage(sync_state.data, r.page)]
    /\ UNCHANGED <<sync_state, script, pos, last, calls, consumed, delivered,
                   twin, run, headerVars, streamVars>>

\* enc.page_flush().map(Page::clone); the caller keeps the page
ValidPageFlush ==
    /\ ~aborted
    /\ Len(held) < MaxHeld
    /\ \E r \in {Stream_page_flush(streams["enc"])} :
          /\ streams' = [streams EXCEPT !["enc"] = r.s]
          /\ aborted' = (r.res = "Panic")
          /\ s_last' = Did("page_flush", "enc", r.res, r.s.page_buffer)
          /\ IF r.res = "Ok"
             THEN \E page \in {OwnedPage(r.s.page_buffer[1].header,
                                         r.s.page_buffer[1].body)} :
                     /\ wire' = Append(wire, page)
                     /\ held' = Append(held, [kind |-> "page", v |-> page])
                     /\ seen' = Append(seen, ReadPage(sync_state.data, page))
             ELSE UNCHANGED <<wire, held, seen>>
    /\ UNCHANGED <<sync_state, script, pos, last, calls, consumed, delivered, twin,
                   run, headerVars, fed, sent, got, accepted, tampered, arrived, outs,
                   given>>

ValidNext ==
    \/ ValidPageNew
    \/ KeepSubmit(Len(PageBytes(PageA)))
    \/ EncPacketIn(FirstPacket, TRUE)
    \/ ValidPageFlush
    \/ \E i \in 1..Len(held) : KeepClone(i)
    \/ \E i \in 1..Len(held) : \E header \in SetHeaders : ValidSetHeader(i, header)
    \/ \E i \in 1..Len(held) : ValidHeaderMut(i, HEADER_VERSION, 1)

SpecValid == KeepInit /\ [][ValidNext]_vars

\* C27: every Page the caller holds has a header that validate_header
\* accepts.
C27_HeldPagesHaveValidHeaders ==
    \A i \in 1..Len(held) :
        held[i].kind = "page" =>
            validate_header(Page_header(sync_state.data, held[i].v)) = <<"Ok">>

\* C27, its case: the caller holds a Page::new, whose header is empty, and
\* a page returned by submit_bytes after header_mut wrote version 1 into it
C27_EmptyAndRewrittenHeaders ==
    /\ Len(held) >= 2
    /\ held[1].v = PageNew
    /\ validate_header(held[1].v.header) = <<"TooShort">>
    /\ held[2].v = WithVersion(PageA, 1)
    /\ validate_header(held[2].v.header) = <<"BadVersion", 1>>


\* the call returned Err(InvalidPage)
InvalidPageReturned == run.pc = "done" /\ run.kind = "InvalidPage"

\* the i-th dropped page is still ahead in the buffer of the SyncState, for
\* a later page_out to return
StillBuffered(i) == run.dropped[i].at >= sync_state.returned

\* C28: when submit_bytes has returned Err(InvalidPage), every page taken
\* from the buffer earlier in the call is still to be had from the
\* SyncState (the call itself returns no page), and the page that was
\* refused is not a page of no segments, whose header is 27 bytes long.
C28_InvalidPageLosesNoPage ==
    InvalidPageReturned =>
        /\ \A i \in 1..Len(run.dropped) : StillBuffered(i)
        /\ run.refused.header_len # 27

\* C28, its case: one call was given a valid page, a valid page of no
\* segments and another valid page; it returned Err(InvalidPage) for the
\* second, and the first is in no result and behind libogg's read mark
C28_FirstPageGoneWithTheError ==
    /\ InvalidPageReturned
    /\ run.arg = PageBytes(PageB) \o PageBytes(PageZ) \o PageBytes(PageA)
    /\ Len(run.dropped) = 1
    /\ run.dropped[1].page = PageB
    /\ ~StillBuffered(1)
    /\ run.refused.header_len = 27
    /\ run.refused.body_len = 0
    /\ sync_state.returned = Len(PageBytes(PageB)) + 27

=============================================================================
